---- MODULE Spec2Model ----
(***************************************************************************)
(* Model of the two-wire bus client of avr-i2c-scale (twi.c): the          *)
(* interrupt handler ISR(TWI0_TWIS_vect) and the task-context accessors    *)
(* twi_read, twi_write, twi_write_P, twi_busy, twi_task_pending,           *)
(* twi_reset and twi_get_task, together with the part of the TWI0          *)
(* peripheral and of the CPU (global interrupt flag, sleep) they rely on.  *)
(***************************************************************************)
EXTENDS Integers, Sequences, FiniteSets, TLC

(***************************************************************************)
(* Bounds of the model.                                                    *)
(***************************************************************************)
\* number of address matches in one run of the firmware
MaxAddr == 3
\* number of address matches in one run of the whole interface
MaxAddrApi == 2
\* number of address matches in one run of the loop with wait_for_input
MaxAddrWait == 2
\* number of address matches in one run under the fairness conditions
MaxAddrFair == 2
\* number of invocations in one run of the handler on arbitrary events
MaxRaw == 5

(***************************************************************************)
(* Program constants.                                                      *)
(***************************************************************************)
TWI_BUFFER_SIZE == 8
TWI_CONFIRM_CALIB_WRITE == 58
TWI_CONFIRM_ADDR_WRITE == 106
TWI_CONFIRM_DISABLE_WD == 154

TWI_CMD_SLEEP == 0
TWI_CMD_MEASURE_WEIGHT == 80
TWI_CMD_TRACK_WEIGHT == 81
TWI_CMD_OPEN_VALVE == 82
TWI_CMD_CLOSE_VALVE == 83
TWI_CMD_GET_TEMP == 84
TWI_CMD_GET_CALIB == 85
TWI_CMD_SET_CALIB == 86
TWI_CMD_ENABLE_WD == 87
TWI_CMD_CALIB_WRITE == 160
TWI_CMD_SET_ADDR == 163
TWI_CMD_ADDR_WRITE == 166
TWI_CMD_DISABLE_WD == 169
TWI_CMD_GET_VERSION == 224
TWI_CMD_NONE == 255
\* sizeof(calib_data): uint32_t offset + uint16_t scale, packed
SizeofCalibData == 6
\* sizeof(version_info): major, minor, patch, uint16_t hash, packed
SizeofVersionInfo == 5

BUCKET_COUNT == 8
\* buckets_init(1) of main()
MinShift == 1

IDLE == 0
STARTED == 1
IN_PROGRESS == 2

\* the commands of the enumeration in twi.h
KnownCommands ==
    {TWI_CMD_SLEEP, TWI_CMD_MEASURE_WEIGHT, TWI_CMD_TRACK_WEIGHT,
     TWI_CMD_OPEN_VALVE, TWI_CMD_CLOSE_VALVE, TWI_CMD_GET_TEMP,
     TWI_CMD_GET_CALIB, TWI_CMD_SET_CALIB, TWI_CMD_ENABLE_WD,
     TWI_CMD_CALIB_WRITE, TWI_CMD_SET_ADDR, TWI_CMD_ADDR_WRITE,
     TWI_CMD_DISABLE_WD, TWI_CMD_GET_VERSION}

\* the dispatcher's rotate command: a command byte that twi.c does not name,
\* so any value outside the commands above behaves the same there
TWI_CMD_ROTATE == CHOOSE c \in 0..254 : c \notin KnownCommands

\* the command bytes a host transmits (TWI_CMD_NONE is never transmitted)
Commands == KnownCommands \cup {TWI_CMD_ROTATE}

\* first payload byte values the host sends
HostBytes == {TWI_CONFIRM_CALIB_WRITE, TWI_CONFIRM_DISABLE_WD}

\* inputs of the dispatcher: temperature readings (int16 as two's
\* complement), stepper cycle counts, weights, filter results
Temperatures == {400}
Cycles == {3}
Weights == {<<2571, 3085>>}
Filtered == {[count |-> 3, sum |-> <<515, 1029>>, total |-> 4, span |-> 17]}

\* the globals of main.c and nvm.c after nvm_init: calib_data and twi_addr as
\* read from the EEPROM cells nvm_calib_data and nvm_twi_addr (a uint32_t is
\* a pair of 16-bit halves, see U32 below)
InitGlobals ==
    [calib_data |-> [offset |-> <<258, 772>>, scale |-> 1286],
     twi_addr |-> 64,
     wd_disabled |-> FALSE,
     nvm_calib_data |-> [offset |-> <<258, 772>>, scale |-> 1286],
     nvm_twi_addr |-> 64,
     hx711_active |-> FALSE,
     stepper_running |-> FALSE]

\* readings of timer_get_time_ms()
Times == {5, 250}

\* the version record in flash (values are fixed at build time)
version_info == <<1, 2, 131, 205, 171>>

Buffer == [0..(TWI_BUFFER_SIZE - 1) -> 0..255]
ZeroBuf == [i \in 0..(TWI_BUFFER_SIZE - 1) |-> 0]

(***************************************************************************)
(* 8-bit arithmetic.                                                       *)
(***************************************************************************)
RECURSIVE BitXorN(_, _, _)
BitXorN(a, b, n) ==
    IF n = 0 THEN 0
    ELSE ((a + b) % 2) + 2 * BitXorN(a \div 2, b \div 2, n - 1)

BitXor(a, b) == BitXorN(a, b, 8)

RECURSIVE BitOrN(_, _, _)
BitOrN(a, b, n) ==
    IF n = 0 THEN 0
    ELSE (IF a % 2 = 1 \/ b % 2 = 1 THEN 1 ELSE 0)
         + 2 * BitOrN(a \div 2, b \div 2, n - 1)

BitOr(a, b) == BitOrN(a, b, 8)

\* memcpy(dst, src, n) with src a sequence of at least n bytes
MemcpySeq(dst, src, n) ==
    [i \in 0..(TWI_BUFFER_SIZE - 1) |-> IF i < n THEN src[i + 1] ELSE dst[i]]

\* memcpy(dst, src, n) between two buffers
MemcpyBuf(dst, src, n) ==
    [i \in 0..(TWI_BUFFER_SIZE - 1) |-> IF i < n THEN src[i] ELSE dst[i]]

\* the first n bytes of a buffer as a sequence
Prefix(b, n) == [i \in 1..n |-> b[i - 1]]

\* A uint32_t is kept as its two 16-bit halves <<high, low>>, so that every
\* 32-bit value and every carry is represented exactly.
Half == 65536

U32(hi, lo) == <<hi, lo>>

Zero32 == U32(0, 0)

\* a + b of two uint32_t, modulo 2^32
Add32(a, b) ==
    LET lo == a[2] + b[2]
    IN  U32((a[1] + b[1] + (lo \div Half)) % Half, lo % Half)

\* a - b of two uint32_t (or of their int32_t casts), modulo 2^32
Sub32(a, b) ==
    LET lo == a[2] - b[2]
    IN  U32((a[1] - b[1] + (lo \div Half)) % Half, lo % Half)

\* (int8_t)((int32_t)d >> shift): the arithmetic shift keeps the sign, the
\* assignment to an int8_t keeps the low eight bits of the result
\* (a shift count above 31 is undefined in C: the sign fill stands for it
\* here, and no run of the histogram reaches such a count)
ShiftToInt8(d, shift) ==
    LET s == IF shift > 31 THEN 31 ELSE shift
        hi == IF d[1] >= Half \div 2 THEN d[1] - Half ELSE d[1]
        bits == IF s >= 16
                THEN (hi \div (2 ^ (s - 16))) % 256
                ELSE ((d[2] \div (2 ^ s)) + (d[1] % 256) * (2 ^ (16 - s)))
                     % 256
    IN  IF bits >= 128 THEN bits - 256 ELSE bits

(***************************************************************************)
(* State.                                                                  *)
(***************************************************************************)
VARIABLES
    twi,        \* the driver's static struct twi
    SCTRLB,     \* last command written to TWI0.SCTRLB
    DIR,        \* TWI0.DIR: direction latched at the address match
    ie,         \* global interrupt enable flag of SREG
    pc,         \* position of the task context
    twi_data,   \* the dispatcher's struct twi_data filled by twi_read
    arg,        \* arguments of the twi_write call in progress
    ev,         \* history: the last step ("task", or the bus event served)
    rx,         \* history: bytes the host sent in the current host-write
    tx,         \* history: bytes emitted since the last address match
    fin,        \* history: the completed host frame whose task is pending
    naddr,      \* history: number of address matches so far (in SpecRaw:
                \* of handler invocations)
    buckets,    \* the histogram's static struct buckets
    add,        \* the buckets_add call in progress: position and val
    hist,       \* history: buckets_add calls and their values since reset
    upd,        \* history: the inputs of the last twi_update_crc applied
                \* by the CRC specification and the number of bytes fed
    res,        \* the accu_t the last buckets_filter call returned
    globals,    \* calib_data, twi_addr and wd_disabled of the dispatcher,
                \* the EEPROM cells behind them, and whether the load cell
                \* and the stepper are running
    set_calib   \* history: payload of the last set-calibration command
                \* the dispatcher accepted

vars == <<twi, SCTRLB, DIR, ie, pc, twi_data, arg, ev, rx, tx, fin, naddr,
          buckets, add, hist, upd, res, globals, set_calib>>

\* the state outside the bus driver and the dispatcher
off_task == <<buckets, add, hist, upd, res>>

\* the state outside the bus driver
off_bus == <<off_task, globals, set_calib>>

NoArg == [count |-> 0, data |-> <<>>]
NoFin == [task |-> TWI_CMD_NONE, payload |-> <<>>]
NoAdd == [pc |-> "idle", val |-> Zero32]
NoHist == [adds |-> 0, sum |-> Zero32]
NoUpd == [crc |-> 0, val |-> 0, n |-> 0, trailer |-> FALSE]
NoRes == [sum |-> Zero32, count |-> 0, total |-> 0, span |-> 0]

\* the zero-initialised bins of the static struct buckets
ZeroBins == [i \in 0..(BUCKET_COUNT - 1) |-> 0]
ZeroAccu == [i \in 0..(BUCKET_COUNT - 1) |-> Zero32]

\* the bus driver, the dispatcher and the CRC history after main()'s init
InitBus ==
    /\ twi = [cmd |-> TWI_CMD_NONE, task |-> TWI_CMD_NONE, index |-> 0,
              count |-> 0, crc |-> 0, buf |-> ZeroBuf, state |-> IDLE,
              blocked |-> FALSE, loaded |-> FALSE, busy |-> FALSE]
    /\ SCTRLB = "NOACT"
    /\ DIR = FALSE
    /\ ie = TRUE
    /\ pc = "loop"
    /\ twi_data = [task |-> TWI_CMD_NONE, count |-> 0, buf |-> ZeroBuf]
    /\ arg = NoArg
    /\ ev = "task"
    /\ rx = <<>>
    /\ tx = <<>>
    /\ fin = NoFin
    /\ naddr = 0
    /\ upd = NoUpd
    /\ globals = InitGlobals
    /\ set_calib = <<>>
    /\ add = NoAdd
    /\ res = NoRes

Init ==
    /\ InitBus
    /\ buckets = [accu |-> ZeroAccu, count |-> ZeroBins, base |-> Zero32,
                  shift |-> 0, lower |-> 0, upper |-> 0,
                  min_shift |-> MinShift]
    /\ hist = NoHist

(***************************************************************************)
(* The driver (twi.c).                                                     *)
(***************************************************************************)
\* 4-bit lookup table for CRC-5-ITU with polynom 0x15, ref-in, ref-out
crc_table == <<0, 13, 26, 23, 31, 18, 5, 8, 21, 24, 15, 2, 10, 7, 16, 29>>

\* faulty variant: the accumulator's upper bit is not carried into the result
CrcStepNoCarry(crc, nibble) == crc_table[(BitXor(crc, nibble) % 16) + 1]

\* one table step: crc_table[(crc ^ nibble) & 0x0f] ^ (crc >> 4)
CrcStep(crc, nibble) ==
    BitXor(crc_table[(BitXor(crc, nibble) % 16) + 1], crc \div 16)

\* faulty variant: high nibble first
UpdateCrcHighFirst(crc, val) == CrcStep(CrcStep(crc, val \div 16), val)

\* twi_update_crc as a function of the accumulator: low nibble, high nibble
UpdateCrc(crc, val) == CrcStep(CrcStep(crc, val), val \div 16)

\* faulty variant: the accumulator is left alone
twi_update_crc_none(t, val) == t

twi_update_crc(t, val) == [t EXCEPT !.crc = UpdateCrc(t.crc, val)]

\* faulty variant: the calibration record is expected one byte short
prepare_recv_short(t) ==
    [t EXCEPT !.count =
        CASE t.cmd = TWI_CMD_SET_CALIB -> SizeofCalibData - 1
          [] t.cmd \in {TWI_CMD_CALIB_WRITE, TWI_CMD_SET_ADDR,
                        TWI_CMD_ADDR_WRITE, TWI_CMD_DISABLE_WD} -> 1
          [] OTHER -> 0]

\* the expected payload length of the command in t.cmd
prepare_recv(t) ==
    [t EXCEPT !.count =
        CASE t.cmd = TWI_CMD_SET_CALIB -> SizeofCalibData
          [] t.cmd \in {TWI_CMD_CALIB_WRITE, TWI_CMD_SET_ADDR,
                        TWI_CMD_ADDR_WRITE, TWI_CMD_DISABLE_WD} -> 1
          [] OTHER -> 0]

\* the commands finish_recv marks as blocking
BlockingCommands ==
    {TWI_CMD_OPEN_VALVE, TWI_CMD_CLOSE_VALVE, TWI_CMD_ENABLE_WD,
     TWI_CMD_DISABLE_WD, TWI_CMD_SET_ADDR, TWI_CMD_ADDR_WRITE,
     TWI_CMD_SET_CALIB, TWI_CMD_CALIB_WRITE}

\* faulty variant: no command is marked as blocking
finish_recv_unblocked(t) ==
    LET i == [t EXCEPT !.state = IDLE]
    IN  IF t.cmd = TWI_CMD_GET_VERSION
        THEN [i EXCEPT !.task = TWI_CMD_NONE,
                       !.count = SizeofVersionInfo,
                       !.buf = MemcpySeq(t.buf, version_info,
                                         SizeofVersionInfo),
                       !.loaded = TRUE]
        ELSE [i EXCEPT !.task = t.cmd]

\* faulty variant: the version query is raised as a task instead of being
\* answered in the handler
finish_recv_version_task(t) ==
    LET i == [t EXCEPT !.state = IDLE]
    IN  IF t.cmd \in BlockingCommands
        THEN [i EXCEPT !.blocked = TRUE, !.task = t.cmd]
        ELSE [i EXCEPT !.task = t.cmd]

\* finish_recv without its write of NACK to SCTRLB
finish_recv(t) ==
    LET i == [t EXCEPT !.state = IDLE]
    IN  IF t.cmd = TWI_CMD_GET_VERSION
        THEN [i EXCEPT !.task = TWI_CMD_NONE,
                       !.count = SizeofVersionInfo,
                       !.buf = MemcpySeq(t.buf, version_info,
                                         SizeofVersionInfo),
                       !.loaded = TRUE]
        ELSE IF t.cmd \in BlockingCommands
        THEN [i EXCEPT !.blocked = TRUE, !.task = t.cmd]
        ELSE [i EXCEPT !.task = t.cmd]

\* faulty variant: the elapsed time is stored but the frame keeps its staged
\* length
prepare_send_long(t, time) ==
    IF t.cmd = TWI_CMD_TRACK_WEIGHT /\ t.loaded
    THEN [t EXCEPT !.buf = [t.buf EXCEPT ![4] = (time - t.buf[5]) % 256]]
    ELSE t

\* prepare_send; time is the value timer_get_time_ms() returns
prepare_send(t, time) ==
    IF t.cmd = TWI_CMD_TRACK_WEIGHT /\ t.loaded
    THEN [t EXCEPT !.buf = [t.buf EXCEPT ![4] = (time - t.buf[5]) % 256],
                   !.count = 5]
    ELSE t

\* faulty variant: a host-read is started whether or not a response is loaded
MasterReadAlways(t, status) == status.DIR

\* the condition under which an address match starts a host-read
MasterReadAccepted(t, status) == status.DIR /\ t.loaded

\* faulty variant: a host-write is started whether or not the bus is blocked
MasterWriteAlways(t, status) == ~status.DIR

\* the condition under which an address match starts a host-write
MasterWriteAccepted(t, status) == ~status.DIR /\ ~t.blocked

\* the accepted host-read address match
MasterReadStart(t, time) ==
    [prepare_send(t, time) EXCEPT !.state = STARTED, !.index = 0, !.crc = 0,
                                  !.busy = TRUE]

\* faulty variant: the accepted host-write address match clears the
\* accumulator too
MasterWriteStartCrc(t) ==
    [t EXCEPT !.state = STARTED, !.index = 0, !.crc = 0, !.loaded = FALSE,
              !.busy = TRUE]

\* faulty variant: the accepted host-write address match does not mark the
\* bus as busy
MasterWriteStartQuiet(t) ==
    [t EXCEPT !.state = STARTED, !.index = 0, !.loaded = FALSE]

\* faulty variant: the accepted host-write address match keeps the staged
\* response
MasterWriteStartLoaded(t) ==
    [t EXCEPT !.state = STARTED, !.index = 0, !.busy = TRUE]

\* faulty variant: the accepted host-write address match drops the pending
\* task
MasterWriteStartDrop(t) ==
    [t EXCEPT !.state = STARTED, !.index = 0, !.loaded = FALSE,
              !.busy = TRUE, !.task = TWI_CMD_NONE]

\* faulty variant: the cursor of the previous transaction is kept
MasterWriteStartStale(t) ==
    [t EXCEPT !.state = STARTED, !.loaded = FALSE, !.busy = TRUE]

\* the accepted host-write address match
MasterWriteStart(t) ==
    [t EXCEPT !.state = STARTED, !.index = 0, !.loaded = FALSE,
              !.busy = TRUE]

\* faulty variant: the response is consumed when its trailer is sent
SendByteConsumes(t, status) ==
    IF (status.RXACK /\ t.state # STARTED) \/ t.index > t.count
    THEN [t |-> [t EXCEPT !.state = IDLE], ctrl |-> "DONE", out |-> <<>>]
    ELSE IF t.index = t.count
    THEN [t |-> [t EXCEPT !.index = (t.index + 1) % 256, !.loaded = FALSE],
          ctrl |-> "RESPONSE", out |-> <<t.crc % 32>>]
    ELSE LET d == t.buf[t.index]
         IN  [t |-> [twi_update_crc(t, d) EXCEPT
                        !.index = (t.index + 1) % 256,
                        !.state = IN_PROGRESS],
              ctrl |-> "RESPONSE", out |-> <<d>>]

\* the "send byte" branch of the data interrupt
SendByte(t, status) ==
    IF (status.RXACK /\ t.state # STARTED) \/ t.index > t.count
    THEN [t |-> [t EXCEPT !.state = IDLE], ctrl |-> "DONE", out |-> <<>>]
    ELSE IF t.index = t.count
    THEN [t |-> [t EXCEPT !.index = (t.index + 1) % 256],
          ctrl |-> "RESPONSE", out |-> <<t.crc % 32>>]
    ELSE LET d == t.buf[t.index]
         IN  [t |-> [twi_update_crc(t, d) EXCEPT
                        !.index = (t.index + 1) % 256,
                        !.state = IN_PROGRESS],
              ctrl |-> "RESPONSE", out |-> <<d>>]

\* faulty variant: the task is raised when the command byte arrives, before
\* the payload is complete
RecvFirstEager(t, sdata) ==
    LET p == prepare_recv([t EXCEPT !.cmd = sdata])
    IN  IF p.count > 0
        THEN [t |-> [p EXCEPT !.task = sdata, !.state = IN_PROGRESS],
              ctrl |-> "ACK", out |-> <<>>]
        ELSE [t |-> finish_recv(p), ctrl |-> "NACK", out |-> <<>>]

\* the "recv first byte" branch of the data interrupt
RecvFirst(t, sdata) ==
    LET p == prepare_recv([t EXCEPT !.cmd = sdata])
    IN  IF p.count > 0
        THEN [t |-> [p EXCEPT !.task = TWI_CMD_NONE, !.state = IN_PROGRESS],
              ctrl |-> "ACK", out |-> <<>>]
        ELSE [t |-> finish_recv(p), ctrl |-> "NACK", out |-> <<>>]

\* faulty variant: received payload bytes are folded into the accumulator
RecvDataCrc(t, sdata) ==
    LET s == [t EXCEPT !.buf = [t.buf EXCEPT ![t.index] = sdata],
                       !.index = (t.index + 1) % 256,
                       !.crc = UpdateCrc(t.crc, sdata)]
    IN  IF s.index < s.count
        THEN [t |-> s, ctrl |-> "ACK", out |-> <<>>]
        ELSE [t |-> finish_recv(s), ctrl |-> "NACK", out |-> <<>>]

\* the "recv data" branch of the data interrupt
RecvData(t, sdata) ==
    LET s == [t EXCEPT !.buf = [t.buf EXCEPT ![t.index] = sdata],
                       !.index = (t.index + 1) % 256]
    IN  IF s.index < s.count
        THEN [t |-> s, ctrl |-> "ACK", out |-> <<>>]
        ELSE [t |-> finish_recv(s), ctrl |-> "NACK", out |-> <<>>]

\* ISR(TWI0_TWIS_vect): the new struct twi, the command written to SCTRLB and
\* the byte written to SDATA (a sequence of length at most one)
ISR(t, status, sdata, time) ==
    IF status.APIF
    THEN IF status.ADR
         THEN IF MasterReadAccepted(t, status)
              THEN [t |-> MasterReadStart(t, time), ctrl |-> "ACK",
                    out |-> <<>>]
              ELSE IF MasterWriteAccepted(t, status)
              THEN [t |-> MasterWriteStart(t), ctrl |-> "ACK", out |-> <<>>]
              ELSE [t |-> [t EXCEPT !.state = IDLE], ctrl |-> "NACK",
                    out |-> <<>>]
         ELSE [t |-> [t EXCEPT !.state = IDLE], ctrl |-> "DONE", out |-> <<>>]
    ELSE IF status.DIF
    THEN IF status.DIR
         THEN SendByte(t, status)
         ELSE IF t.state = STARTED
         THEN RecvFirst(t, sdata)
         ELSE IF t.index < t.count
         THEN RecvData(t, sdata)
         ELSE [t |-> [t EXCEPT !.state = IDLE], ctrl |-> "NACK", out |-> <<>>]
    ELSE [t |-> [t EXCEPT !.state = IDLE], ctrl |-> "NACK", out |-> <<>>]

\* faulty variants: cli() missing
ReadCliOpen == TRUE
LoadCliOpen == TRUE

\* cli() in twi_read: the interrupt flag afterwards
ReadCli == FALSE

\* cli() in twi_prepare_load: the interrupt flag afterwards
LoadCli == FALSE

\* faulty variant: the loop waits for the busy flag, which only twi_busy
\* clears
LoadWaitBusy(t) == t.busy

\* loop condition of twi_prepare_load's sleep-wait loop
LoadWait(t) == t.state # IDLE

\* the guard of twi_read's critical section
ReadReady(t) == t.task # TWI_CMD_NONE /\ t.state # IN_PROGRESS

\* faulty variant: blocked is left set
ReadClearTaskOnly(t) == [t EXCEPT !.task = TWI_CMD_NONE]

\* the hand-over in twi_read: task and blocked are cleared
ReadClear(t) == [t EXCEPT !.task = TWI_CMD_NONE, !.blocked = FALSE]

\* twi_prepare_load's stores once the wait loop is left without a pending task
LoadStage(t, count) == [t EXCEPT !.count = count, !.loaded = TRUE]

\* faulty variant: twi_reset forces the bus state to idle as well
ResetTaskIdle(t) == [t EXCEPT !.task = TWI_CMD_NONE, !.state = IDLE]

\* twi_reset: first and second store
ResetCmd(t) == [t EXCEPT !.cmd = TWI_CMD_NONE]
ResetTask(t) == [t EXCEPT !.task = TWI_CMD_NONE]

(***************************************************************************)
(* The TWI0 peripheral: an interrupt is served only while the global       *)
(* interrupt flag is set; it wakes a sleeping CPU.  Data interrupts occur  *)
(* only inside a transaction the client has acknowledged, in the direction *)
(* latched at the address match.                                           *)
(***************************************************************************)
InTransaction == SCTRLB \in {"ACK", "RESPONSE"}

Status(apif, adr, dir, dif, rxack) ==
    [APIF |-> apif, ADR |-> adr, DIR |-> dir, DIF |-> dif, RXACK |-> rxack]

\* an interrupt ends sleep_cpu(): the task context resumes behind it
Wake(p) ==
    IF p = "l_sleep" THEN "l_woke"
    ELSE IF p = "i_sleep" THEN "i_woke"
    ELSE p

\* one invocation of the handler; sdata is the byte in TWI0.SDATA
Interrupt(status, sdata, time, name) ==
    /\ ie
    /\ LET r == ISR(twi, status, sdata, time)
           recv == status.DIF /\ ~status.APIF /\ ~status.DIR
           taken == recv /\ (twi.state = STARTED \/ twi.index < twi.count)
           nrx == IF taken THEN Append(rx, sdata) ELSE <<>>
           done == taken /\ r.ctrl = "NACK"
       IN  /\ twi' = r.t
           /\ SCTRLB' = r.ctrl
           /\ DIR' = status.DIR
           /\ rx' = nrx
           /\ tx' = IF status.APIF /\ status.ADR THEN <<>> ELSE tx \o r.out
           /\ fin' = IF r.t.task = TWI_CMD_NONE THEN NoFin
                     ELSE IF done
                     THEN [task |-> nrx[1], payload |-> Tail(nrx)]
                     ELSE fin
    /\ pc' = Wake(pc)
    /\ ev' = name
    /\ UNCHANGED <<ie, twi_data, arg, off_bus>>

\* the host addresses the client, for writing (dir = FALSE) or reading
AddressMatchUpTo(max) ==
    /\ naddr < max
    /\ naddr' = naddr + 1
    /\ \E dir \in BOOLEAN, time \in Times :
           Interrupt(Status(TRUE, TRUE, dir, FALSE, FALSE), 0, time, "addr")

AddressMatch == AddressMatchUpTo(MaxAddr)

\* a stop condition on the bus
Stop ==
    /\ Interrupt(Status(TRUE, FALSE, DIR, FALSE, FALSE), 0, 0, "stop")
    /\ UNCHANGED naddr

\* the payload byte that follows payload byte b in a host frame
HostNext(b) == (b + 37) % 256

\* the bytes the host may send next: the command byte first, payload bytes
\* after it
HostData ==
    IF rx = <<>> THEN Commands
    ELSE IF Len(rx) = 1 THEN HostBytes
    ELSE {HostNext(rx[Len(rx)])}

\* the host sends a byte
DataRecv ==
    /\ InTransaction
    /\ ~DIR
    /\ \E b \in HostData :
           Interrupt(Status(FALSE, FALSE, FALSE, TRUE, FALSE), b, 0, "recv")
    /\ UNCHANGED naddr

\* the host requests a byte; rxack is its NACK of the previous byte
DataSend ==
    /\ InTransaction
    /\ DIR
    /\ \E rxack \in BOOLEAN :
           Interrupt(Status(FALSE, FALSE, TRUE, TRUE, rxack), 0, 0,
                     IF rxack THEN "nack" ELSE "send")
    /\ UNCHANGED naddr

\* an interrupt of another peripheral: it only wakes the CPU
OtherInterrupt ==
    /\ ie
    /\ pc \in {"l_sleep", "i_sleep"}
    /\ pc' = Wake(pc)
    /\ ev' = "wake"
    /\ UNCHANGED <<twi, SCTRLB, DIR, ie, twi_data, arg, rx, tx, fin, naddr,
                   off_bus>>

(***************************************************************************)
(* Task context: twi_read, called by the dispatcher loop when              *)
(* twi_task_pending() holds.                                               *)
(***************************************************************************)
hw == <<SCTRLB, DIR, naddr>>

\* loop(): if (twi_task_pending()) ...
twi_task_pending ==
    /\ pc = "loop"
    /\ pc' = IF twi.task # TWI_CMD_NONE THEN "r_call" ELSE "loop"
    /\ ev' = "task"
    /\ UNCHANGED <<twi, hw, off_bus, ie, twi_data, arg, rx, tx, fin>>

\* entry: the stores to *data and cli()
TwiReadCall ==
    /\ pc = "r_call"
    /\ twi_data' = [twi_data EXCEPT !.task = TWI_CMD_NONE, !.count = 0]
    /\ ie' = ReadCli
    /\ pc' = "r_chk"
    /\ ev' = "task"
    /\ UNCHANGED <<twi, hw, off_bus, arg, rx, tx, fin>>

\* the guard and the copy of the task; sei() and return when it fails
TwiReadTask ==
    /\ pc = "r_chk"
    /\ IF ReadReady(twi)
       THEN /\ twi_data' = [twi_data EXCEPT !.task = twi.task]
            /\ pc' = "r_copy"
            /\ ie' = ie
       ELSE /\ twi_data' = twi_data
            /\ pc' = "d_switch"
            /\ ie' = TRUE
    /\ ev' = "task"
    /\ UNCHANGED <<twi, hw, off_bus, arg, rx, tx, fin>>

\* memcpy of the payload and the copy of the count
TwiReadCopy ==
    /\ pc = "r_copy"
    /\ twi_data' = [twi_data EXCEPT
                       !.buf = MemcpyBuf(twi_data.buf, twi.buf, twi.count),
                       !.count = twi.count]
    /\ pc' = "r_clr"
    /\ ev' = "task"
    /\ UNCHANGED <<twi, hw, off_bus, ie, arg, rx, tx, fin>>

\* the stores to task and blocked, sei() and return; the delivered task is
\* no longer outstanding
TwiReadClear ==
    /\ pc = "r_clr"
    /\ twi' = ReadClear(twi)
    /\ ie' = TRUE
    /\ pc' = "d_switch"
    /\ ev' = "task"
    /\ fin' = NoFin
    /\ UNCHANGED <<hw, off_bus, twi_data, arg, rx, tx>>

twi_read ==
    \/ TwiReadCall
    \/ TwiReadTask
    \/ TwiReadCopy
    \/ TwiReadClear

(***************************************************************************)
(* Task context: twi_write, twi_write_P (twi_prepare_load and the copy)    *)
(* and the places of the dispatcher loop that call twi_write.              *)
(***************************************************************************)
\* write_big_endian_u16, write_big_endian_u32
write_big_endian_u16(v) == <<v \div 256, v % 256>>
write_big_endian_u32(v) ==
    write_big_endian_u16(v[1]) \o write_big_endian_u16(v[2])

\* read_big_endian_u16 on the bytes k, k + 1 of a buffer
read_big_endian_u16(src, k) == (src[k] * 256 + src[k + 1]) % Half

\* faulty variant: the two halves of the word are stored in the order of
\* the bytes on the bus
read_big_endian_u32_swapped(src, k) ==
    U32(read_big_endian_u16(src, k + 2), read_big_endian_u16(src, k))

\* read_big_endian_u32: bytes k, k + 1 go to the uint16_t at dst + 1, the
\* high half of the little-endian word, bytes k + 2, k + 3 to the low half
read_big_endian_u32(src, k) ==
    U32(read_big_endian_u16(src, k), read_big_endian_u16(src, k + 2))

\* the responses the dispatcher stages
TempData(t) == write_big_endian_u16(t)
CalibData ==
    write_big_endian_u32(globals.calib_data.offset)
        \o write_big_endian_u16(globals.calib_data.scale)
TrackData(w, t) == write_big_endian_u32(w) \o <<0, t>>
MeasureData(r) ==
    <<r.count>> \o write_big_endian_u32(r.sum) \o <<r.total, r.span>>

\* expect_twi_data(count)
expect_twi_data(d, count) == d.count = count

\* faulty variant: the confirmation byte is not compared
Confirmed_any(d, byte) == expect_twi_data(d, 1)

\* the guard of the confirmed commands
Confirmed(d, byte) == expect_twi_data(d, 1) /\ d.buf[0] = byte

SetCalibAccepted(d) ==
    d.task = TWI_CMD_SET_CALIB /\ expect_twi_data(d, SizeofCalibData)

\* the cases of switch (twi_data.task) that write the globals g; the
\* sleep, valve and temperature cases write none of them
Switch(g, d) ==
    CASE d.task \in {TWI_CMD_TRACK_WEIGHT, TWI_CMD_MEASURE_WEIGHT} ->
             [g EXCEPT !.hx711_active = TRUE]
      [] d.task = TWI_CMD_ROTATE ->
             IF expect_twi_data(d, 2)
             THEN [g EXCEPT !.stepper_running = TRUE] ELSE g
      [] d.task = TWI_CMD_DISABLE_WD ->
             IF Confirmed(d, TWI_CONFIRM_DISABLE_WD)
             THEN [g EXCEPT !.wd_disabled = TRUE] ELSE g
      [] d.task = TWI_CMD_ENABLE_WD -> [g EXCEPT !.wd_disabled = FALSE]
      [] d.task = TWI_CMD_SET_CALIB ->
             IF expect_twi_data(d, SizeofCalibData)
             THEN [g EXCEPT !.calib_data =
                      [offset |-> read_big_endian_u32(d.buf, 0),
                       scale |-> read_big_endian_u16(d.buf, 4)]]
             ELSE g
      [] d.task = TWI_CMD_CALIB_WRITE ->
             IF Confirmed(d, TWI_CONFIRM_CALIB_WRITE)
             THEN [g EXCEPT !.nvm_calib_data = g.calib_data] ELSE g
      [] d.task = TWI_CMD_SET_ADDR ->
             IF expect_twi_data(d, 1)
             THEN [g EXCEPT !.twi_addr = d.buf[0]] ELSE g
      [] d.task = TWI_CMD_ADDR_WRITE ->
             IF Confirmed(d, TWI_CONFIRM_ADDR_WRITE)
             THEN [g EXCEPT !.nvm_twi_addr = g.twi_addr] ELSE g
      [] OTHER -> g

\* after the switch: the load cell is powered down unless the task is a
\* weight command, the stepper is stopped unless the task is rotate
Epilogue(g, d) ==
    [g EXCEPT
        !.hx711_active =
            @ /\ d.task \in {TWI_CMD_MEASURE_WEIGHT, TWI_CMD_TRACK_WEIGHT},
        !.stepper_running = @ /\ d.task = TWI_CMD_ROTATE]

\* entry of twi_write(count, data): twi_prepare_load's first cli()
TwiWriteEnter(count, data) ==
    /\ arg' = [count |-> count, data |-> data]
    /\ ie' = LoadCli
    /\ pc' = "l_chk"
    /\ ev' = "task"
    /\ UNCHANGED <<twi, hw, twi_data, rx, tx, fin>>

\* twi_write called after the switch
TwiWriteCall(count, data) ==
    TwiWriteEnter(count, data) /\ UNCHANGED off_bus

\* twi_write called inside the switch.  What follows the switch writes
\* none of the driver's state and is taken together with the call.
TwiWriteInSwitch(count, data) ==
    /\ TwiWriteEnter(count, data)
    /\ globals' = Epilogue(globals, twi_data)
    /\ UNCHANGED <<off_task, set_calib>>

\* the switch on the task twi_read returned: get-temperature and
\* get-calibration stage their response, the other cases stage nothing
DispatchTemp ==
    /\ pc = "d_switch"
    /\ twi_data.task = TWI_CMD_GET_TEMP
    /\ \E t \in Temperatures : TwiWriteInSwitch(2, TempData(t))

DispatchCalib ==
    /\ pc = "d_switch"
    /\ twi_data.task = TWI_CMD_GET_CALIB
    /\ TwiWriteInSwitch(6, CalibData)

DispatchOther ==
    /\ pc = "d_switch"
    /\ twi_data.task \notin {TWI_CMD_GET_TEMP, TWI_CMD_GET_CALIB}
    /\ globals' = Epilogue(Switch(globals, twi_data), twi_data)
    /\ set_calib' = IF SetCalibAccepted(twi_data)
                    THEN Prefix(twi_data.buf, SizeofCalibData)
                    ELSE set_calib
    /\ pc' = "loop"
    /\ ev' = "task"
    /\ UNCHANGED <<twi, hw, off_task, ie, twi_data, arg, rx, tx, fin>>

\* if (twi_data.task == TWI_CMD_ROTATE) twi_write(1, &last_stepper_cycle)
StageRotate ==
    /\ pc = "loop"
    /\ twi_data.task = TWI_CMD_ROTATE
    /\ \E c \in Cycles : TwiWriteCall(1, <<c>>)

\* load-cell data is available and the last task is track-weight
StageTrack ==
    /\ pc = "loop"
    /\ twi_data.task = TWI_CMD_TRACK_WEIGHT
    /\ \E w \in Weights, t \in Times : TwiWriteCall(6, TrackData(w, t))

\* load-cell data is available and the last task is measure-weight
StageMeasure ==
    /\ pc = "loop"
    /\ twi_data.task = TWI_CMD_MEASURE_WEIGHT
    /\ \E r \in Filtered : TwiWriteCall(7, MeasureData(r))

\* twi_write_P with the version record in flash
TwiWritePCall ==
    /\ pc = "loop"
    /\ TwiWriteCall(SizeofVersionInfo, version_info)

\* the loop test: sei(); sleep_cpu() when the bus is not idle
LoadCheck ==
    /\ pc = "l_chk"
    /\ IF LoadWait(twi)
       THEN ie' = TRUE /\ pc' = "l_sleep"
       ELSE ie' = ie /\ pc' = "l_task"
    /\ ev' = "task"
    /\ UNCHANGED <<twi, hw, off_bus, twi_data, arg, rx, tx, fin>>

\* cli() after the CPU woke up
LoadWoke ==
    /\ pc = "l_woke"
    /\ ie' = LoadCli
    /\ pc' = "l_chk"
    /\ ev' = "task"
    /\ UNCHANGED <<twi, hw, off_bus, twi_data, arg, rx, tx, fin>>

\* faulty variant: the response is staged whether or not a task is pending
LoadTaskAlways ==
    /\ pc = "l_task"
    /\ twi' = LoadStage(twi, arg.count)
    /\ pc' = "w_copy"
    /\ ev' = "task"
    /\ UNCHANGED <<hw, off_bus, twi_data, rx, tx, fin, ie, arg>>

\* the test for a pending task: return false and sei(), or store count and
\* loaded
LoadTask ==
    /\ pc = "l_task"
    /\ IF twi.task # TWI_CMD_NONE
       THEN twi' = twi /\ pc' = "loop" /\ ie' = TRUE /\ arg' = NoArg
       ELSE /\ twi' = LoadStage(twi, arg.count)
            /\ pc' = "w_copy"
            /\ ie' = ie
            /\ arg' = arg
    /\ ev' = "task"
    /\ UNCHANGED <<hw, off_bus, twi_data, rx, tx, fin>>

\* memcpy / memcpy_P of the response into the payload buffer, sei(), return
TwiWriteCopy ==
    /\ pc = "w_copy"
    /\ twi' = [twi EXCEPT !.buf = MemcpySeq(twi.buf, arg.data, arg.count)]
    /\ ie' = TRUE
    /\ pc' = "loop"
    /\ arg' = NoArg
    /\ ev' = "task"
    /\ UNCHANGED <<hw, off_bus, twi_data, rx, tx, fin>>

twi_write ==
    \/ DispatchTemp
    \/ DispatchCalib
    \/ StageRotate
    \/ StageTrack
    \/ StageMeasure
    \/ LoadCheck
    \/ LoadWoke
    \/ LoadTask
    \/ TwiWriteCopy

(***************************************************************************)
(* Task context: the remaining accessors.                                  *)
(***************************************************************************)
\* twi_busy; both call sites run it with interrupts masked.  The value it
\* returns is kept in ev: "busy" for true, "quiet" for false
twi_busy ==
    /\ pc = "loop"
    /\ twi' = [twi EXCEPT !.busy = FALSE]
    /\ ev' = IF twi.busy THEN "busy" ELSE "quiet"
    /\ UNCHANGED <<hw, off_bus, ie, pc, twi_data, arg, rx, tx, fin>>

\* twi_reset: two unprotected stores
TwiResetCmd ==
    /\ pc = "loop"
    /\ twi' = ResetCmd(twi)
    /\ pc' = "x_task"
    /\ ev' = "task"
    /\ UNCHANGED <<hw, off_bus, ie, twi_data, arg, rx, tx, fin>>

TwiResetTask ==
    /\ pc = "x_task"
    /\ twi' = ResetTask(twi)
    /\ pc' = "loop"
    /\ ev' = "task"
    /\ fin' = NoFin
    /\ UNCHANGED <<hw, off_bus, ie, twi_data, arg, rx, tx>>

twi_reset == TwiResetCmd \/ TwiResetTask

\* twi_get_task: read and clear the task under LOCKI/UNLOCKI
twi_get_task ==
    /\ pc = "loop"
    /\ twi' = [twi EXCEPT !.task = TWI_CMD_NONE]
    /\ ev' = "task"
    /\ fin' = NoFin
    /\ UNCHANGED <<hw, off_bus, ie, pc, twi_data, arg, rx, tx>>

(***************************************************************************)
(* Specifications.                                                         *)
(***************************************************************************)
\* the driver as the firmware uses it: bus events and the dispatcher loop's
\* calls of twi_task_pending, twi_read, twi_write and twi_busy
Next ==
    \/ AddressMatch
    \/ Stop
    \/ DataRecv
    \/ DataSend
    \/ OtherInterrupt
    \/ twi_task_pending
    \/ twi_read
    \/ DispatchOther
    \/ twi_write
    \/ twi_busy

Spec == Init /\ [][Next]_vars

\* the whole interface of twi.c: twi_write_P, twi_reset and twi_get_task,
\* which the firmware never calls, included
NextApi ==
    \/ AddressMatchUpTo(MaxAddrApi)
    \/ Stop
    \/ DataRecv
    \/ DataSend
    \/ OtherInterrupt
    \/ twi_task_pending
    \/ twi_read
    \/ DispatchOther
    \/ twi_write
    \/ twi_busy
    \/ TwiWritePCall
    \/ twi_reset
    \/ twi_get_task

SpecApi == Init /\ [][NextApi]_vars

\* the handler alone, invoked with every combination of the status flags in
\* every state it has left behind
RawStatus ==
    {Status(apif, adr, dir, dif, rxack) :
        apif \in BOOLEAN, adr \in BOOLEAN, dir \in BOOLEAN,
        dif \in BOOLEAN, rxack \in BOOLEAN}

\* the branch of the handler a status word selects
EventName(status) ==
    IF status.APIF THEN (IF status.ADR THEN "addr" ELSE "stop")
    ELSE IF status.DIF
    THEN (IF ~status.DIR THEN "recv"
          ELSE IF status.RXACK THEN "nack" ELSE "send")
    ELSE "none"

RawInterrupt ==
    \E status \in RawStatus, b \in HostData, time \in Times :
        /\ naddr < MaxRaw
        /\ naddr' = naddr + 1
        /\ Interrupt(status, b, time, EventName(status))

NextRaw == RawInterrupt

SpecRaw == Init /\ [][NextRaw]_vars

(***************************************************************************)
(* The CRC engine on its own: twi_update_crc is applied to every sequence  *)
(* of at most MaxCrcLen bytes, starting from the accumulator's reset value *)
(* 0, and to the trailer byte (crc & 0x1f) the handler emits after a       *)
(* frame.                                                                  *)
(***************************************************************************)
MaxCrcLen == 2

Bytes == 0..255

no_crc == <<SCTRLB, DIR, ie, pc, twi_data, arg, ev, rx, tx, fin, naddr,
            buckets, add, hist, res, globals, set_calib>>

\* twi_update_crc(b) for the next byte b of the sequence
CrcFeed ==
    \E b \in Bytes :
        /\ upd.n < MaxCrcLen
        /\ ~upd.trailer
        /\ twi' = twi_update_crc(twi, b)
        /\ upd' = [crc |-> twi.crc, val |-> b, n |-> upd.n + 1,
                   trailer |-> FALSE]
        /\ UNCHANGED no_crc

\* twi_update_crc(crc & 0x1f): the frame's trailer is fed after the sequence
CrcTrailer ==
    /\ ~upd.trailer
    /\ twi' = twi_update_crc(twi, twi.crc % 32)
    /\ upd' = [crc |-> twi.crc, val |-> twi.crc % 32, n |-> upd.n,
               trailer |-> TRUE]
    /\ UNCHANGED no_crc

NextCrc ==
    \/ CrcFeed
    \/ CrcTrailer

SpecCrc == Init /\ [][NextCrc]_vars

(***************************************************************************)
(* The histogram: buckets_reset and buckets_add as the dispatcher calls    *)
(* them for the measure-weight command, with the loop of buckets_add taken *)
(* one iteration at a time.                                                *)
(***************************************************************************)
MaxAdds == 9

\* the samples offered to buckets_add: a cluster whose members are two
\* apart (one bin of width 2^MinShift each), samples a few bins and a few
\* hundred counts away from it, and the ends of the 32-bit range
Cluster == {U32(127, 65528 + 2 * n) : n \in 0..3} \cup
           {U32(128, 2 * n) : n \in 0..3}

Samples == Cluster \cup {U32(128, 16)}

\* a few samples of the cluster, samples 16, 512 and 2^16 counts above it,
\* the ends and the middle of the 32-bit range, and two samples whose
\* distances 0x55555555 and 0x85555555 from the cluster fit no window
\* until shift is 28 and 29
MaxWideAdds == 3

WideSamples == {U32(127, 65534), U32(128, 0), U32(128, 2), U32(128, 16),
                U32(128, 512), U32(129, 0), U32(0, 0), U32(32767, 65535),
                U32(32768, 0), U32(65535, 65535), U32(21973, 21845),
                U32(34261, 21845)}

\* a long session of equal samples, with one outlier
MaxLongAdds == 256

LongSamples == {U32(128, 0), U32(128, 16)}

buckets_empty(b) == b.upper = 0

buckets_merge(b, dst, src0) ==
    [b EXCEPT !.accu[dst] = Add32(b.accu[src0], b.accu[src0 + 1]),
              !.count[dst] = (b.count[src0] + b.count[src0 + 1]) % 256]

\* for (i = 0, j = 0; i + 1 < upper; ++j, i += 2) buckets_merge(j, i)
RECURSIVE MergeUp(_, _, _)
MergeUp(b, i, j) ==
    IF i + 1 < b.upper THEN MergeUp(buckets_merge(b, j, i), i + 2, j + 1)
    ELSE b

\* for (i = 7, j = i; i - 1 >= lower; --j, i -= 2) buckets_merge(j, i - 1)
RECURSIVE MergeDown(_, _, _)
MergeDown(b, i, j) ==
    IF i - 1 >= b.lower
    THEN MergeDown(buckets_merge(b, j, i - 1), i - 2, j - 1)
    ELSE b

\* faulty variant: lone bins at the window's edges are dropped
CopyBinNone(b, j, i) == b

\* accu[j] = accu[i]; count[j] = count[i]
CopyBin(b, j, i) ==
    [b EXCEPT !.accu[j] = b.accu[i], !.count[j] = b.count[i]]

\* faulty variant: the bins are left alone and shift is not incremented
buckets_deflate_keep(b) == b

buckets_deflate(b) ==
    LET b1 == MergeUp(b, 0, 0)
        b2 == IF b1.upper % 2 # 0
              THEN CopyBin(b1, (b1.upper - 1) \div 2, b1.upper - 1)
              ELSE b1
        b3 == MergeDown(b2, BUCKET_COUNT - 1, BUCKET_COUNT - 1)
        b4 == IF b3.lower % 2 # 0
              THEN CopyBin(b3, (BUCKET_COUNT + b3.lower) \div 2, b3.lower)
              ELSE b3
        i == (b4.upper + 1) \div 2
        j == (BUCKET_COUNT + b4.lower) \div 2
    IN  [b4 EXCEPT
            !.shift = (b4.shift + 1) % 256,
            !.accu = [n \in 0..(BUCKET_COUNT - 1) |->
                        IF i <= n /\ n < j THEN Zero32 ELSE b4.accu[n]],
            !.count = [n \in 0..(BUCKET_COUNT - 1) |->
                        IF i <= n /\ n < j THEN 0 ELSE b4.count[n]],
            !.upper = i,
            !.lower = j]

\* i = ((int32_t)val - (int32_t)buckets.base) >> buckets.shift
AddIndex(b, val) == ShiftToInt8(Sub32(val, b.base), b.shift)

\* the exit condition of the loop of buckets_add
Fits(b, i) ==
    \/ i < 0 /\ i + BUCKET_COUNT >= b.upper
    \/ i >= 0 /\ i < b.lower

\* the part of buckets_add after the loop
AddStore(b, val, i0) ==
    LET neg == i0 < 0
        i == IF neg THEN i0 + BUCKET_COUNT ELSE i0
        w == IF neg
             THEN (IF i < b.lower THEN [b EXCEPT !.lower = i] ELSE b)
             ELSE (IF i >= b.upper THEN [b EXCEPT !.upper = i + 1] ELSE b)
    IN  [w EXCEPT !.accu[i] = Add32(w.accu[i], val),
                  !.count[i] = (w.count[i] + 1) % 256]

no_buckets == <<twi, SCTRLB, DIR, ie, pc, twi_data, arg, ev, rx, tx, fin,
                naddr, upd, res, globals, set_calib>>

buckets_reset ==
    /\ add.pc = "idle"
    /\ buckets' = [buckets EXCEPT !.accu = ZeroAccu, !.count = ZeroBins,
                                  !.shift = 0, !.lower = 0, !.upper = 0]
    /\ hist' = NoHist
    /\ UNCHANGED <<add, no_buckets>>

\* faulty variant: the first sample leaves shift at the reset value
AddOpenNoShift(b, val) ==
    [b EXCEPT !.base = val, !.upper = 1, !.lower = BUCKET_COUNT]

\* the first sample after a reset opens the window (buckets_add, first if)
AddOpen(b, val) ==
    [b EXCEPT !.shift = b.min_shift, !.base = val, !.upper = 1,
              !.lower = BUCKET_COUNT]

\* one iteration of the loop of buckets_add for the sample val, and what
\* follows it: either buckets_deflate() and the loop goes on, or the loop is
\* left, the sample is stored and buckets_add returns
AddIterate(b, val) ==
    LET i == AddIndex(b, val)
    IN  IF Fits(b, i)
        THEN /\ buckets' = AddStore(b, val, i)
             /\ add' = NoAdd
             /\ hist' = [adds |-> hist.adds + 1,
                         sum |-> Add32(hist.sum, val)]
        ELSE /\ buckets' = buckets_deflate(b)
             /\ add' = [pc |-> "loop", val |-> val]
             /\ hist' = hist

\* buckets_add(val) up to the end of the first iteration of its loop
AddCallFrom(samples, max) ==
    \E val \in samples :
        /\ add.pc = "idle"
        /\ hist.adds < max
        /\ AddIterate(IF buckets_empty(buckets) THEN AddOpen(buckets, val)
                      ELSE buckets, val)
        /\ UNCHANGED no_buckets

AddCall == AddCallFrom(Samples, MaxAdds)

\* a further iteration of the loop of buckets_add
AddLoop ==
    /\ add.pc = "loop"
    /\ AddIterate(buckets, add.val)
    /\ UNCHANGED no_buckets

NextBuckets ==
    \/ buckets_reset
    \/ AddCall
    \/ AddLoop

SpecBuckets == Init /\ [][NextBuckets]_vars

\* the same calls with samples from the whole 32-bit range
AddCallWide == AddCallFrom(WideSamples, MaxWideAdds)

NextBucketsWide ==
    \/ buckets_reset
    \/ AddCallWide
    \/ AddLoop

SpecBucketsWide == Init /\ [][NextBucketsWide]_vars

\* buckets_add is straight-line code around its loop and nothing preempts
\* the task context for good, so a call in progress takes its next iteration
SpecBucketsWideFair == SpecBucketsWide /\ WF_vars(AddLoop)

\* the same calls in a session of more than 255 samples
AddCallLong == AddCallFrom(LongSamples, MaxLongAdds)

NextBucketsLong ==
    \/ buckets_reset
    \/ AddCallLong
    \/ AddLoop

SpecBucketsLong == Init /\ [][NextBucketsLong]_vars

(***************************************************************************)
(* The histogram's read-out: buckets_filter, which the dispatcher calls    *)
(* after each buckets_add of a measure-weight session.                     *)
(***************************************************************************)
\* the first slot from n upward whose count reaches thresh; BUCKET_COUNT
\* when the scan leaves the array
RECURSIVE ScanUp(_, _, _)
ScanUp(b, thresh, n) ==
    IF n >= BUCKET_COUNT THEN BUCKET_COUNT
    ELSE IF b.count[n] >= thresh THEN n
    ELSE ScanUp(b, thresh, n + 1)

\* the last end from n downward with count[end - 1] >= thresh; 0 when the
\* scan leaves the array
RECURSIVE ScanDown(_, _, _)
ScanDown(b, thresh, n) ==
    IF n <= 0 THEN 0
    ELSE IF b.count[n - 1] >= thresh THEN n
    ELSE ScanDown(b, thresh, n - 1)

\* faulty variant: the scan starts at slot 0, not at lower
buckets_start_zero(b, thresh) == ScanUp(b, thresh, 0)

\* the for loop from lower, then the while loop from 0
buckets_start(b, thresh) ==
    LET start == ScanUp(b, thresh, b.lower)
    IN  IF start < BUCKET_COUNT THEN start ELSE ScanUp(b, thresh, 0)

\* faulty variant: the scans accept a bin only above the threshold
buckets_end_strict(b, thresh) ==
    LET end == ScanDown(b, thresh + 1, b.upper)
    IN  IF end > 0 THEN end ELSE ScanDown(b, thresh + 1, BUCKET_COUNT)

\* the for loop from upper, then the while loop from BUCKET_COUNT
buckets_end(b, thresh) ==
    LET end == ScanDown(b, thresh, b.upper)
    IN  IF end > 0 THEN end ELSE ScanDown(b, thresh, BUCKET_COUNT)

\* for (; i < end; ++i) { r.count += count[i]; r.sum += accu[i]; }
RECURSIVE Accumulate(_, _, _, _)
Accumulate(b, r, i, end) ==
    IF i >= end \/ i >= BUCKET_COUNT THEN r
    ELSE Accumulate(b, [r EXCEPT !.count = (r.count + b.count[i]) % 256,
                                 !.sum = Add32(r.sum, b.accu[i])],
                    i + 1, end)

\* uint8_t total over all eight counts
RECURSIVE FilterTotal(_, _)
FilterTotal(b, n) ==
    IF n = 0 THEN 0 ELSE (FilterTotal(b, n - 1) + b.count[n - 1]) % 256

\* faulty variant: a range that wraps around the array loses its part
\* below the base
buckets_filter_nowrap(b) ==
    LET total == FilterTotal(b, BUCKET_COUNT)
        thresh == total \div BUCKET_COUNT
        start == buckets_start(b, thresh)
        end == buckets_end(b, thresh)
        r0 == [sum |-> Zero32, count |-> 0, total |-> total,
               span |-> (end - start - 1) % 256]
        r1 == IF end <= start
              THEN [r0 EXCEPT !.span = (r0.span + BUCKET_COUNT) % 256]
              ELSE r0
        r2 == [r1 EXCEPT !.span = BitOr(r1.span, (b.shift * 8) % 256)]
    IN  Accumulate(b, r2, IF end <= start THEN 0 ELSE start, end)

buckets_filter(b) ==
    LET total == FilterTotal(b, BUCKET_COUNT)
        thresh == total \div BUCKET_COUNT
        start == buckets_start(b, thresh)
        end == buckets_end(b, thresh)
        r0 == [sum |-> Zero32, count |-> 0, total |-> total,
               span |-> (end - start - 1) % 256]
        r1 == IF end <= start
              THEN [Accumulate(b, r0, start, BUCKET_COUNT) EXCEPT
                       !.span = (r0.span + BUCKET_COUNT) % 256]
              ELSE r0
        r2 == [r1 EXCEPT !.span = BitOr(r1.span, (b.shift * 8) % 256)]
    IN  Accumulate(b, r2, IF end <= start THEN 0 ELSE start, end)

no_filter == <<twi, SCTRLB, DIR, ie, pc, twi_data, arg, ev, rx, tx, fin,
               naddr, upd, globals, set_calib>>

\* faulty variant: the read-out clears the bins
BucketsFilterClears ==
    /\ add.pc = "idle"
    /\ res' = buckets_filter(buckets)
    /\ buckets' = [buckets EXCEPT !.accu = ZeroAccu, !.count = ZeroBins]
    /\ UNCHANGED <<add, hist, no_filter>>

\* accu_t r = buckets_filter()
BucketsFilter ==
    /\ add.pc = "idle"
    /\ res' = buckets_filter(buckets)
    /\ UNCHANGED <<buckets, add, hist, no_filter>>

\* short sessions read out at any time, also twice in a row and between
\* two adds
MaxReadAdds == 3

ReadSamples == {U32(127, 65534), U32(128, 0), U32(128, 2), U32(128, 16),
                U32(128, 512)}

AddCallRead == AddCallFrom(ReadSamples, MaxReadAdds)

NextBucketsRead ==
    \/ buckets_reset
    \/ AddCallRead
    \/ AddLoop
    \/ BucketsFilter

SpecBucketsRead == Init /\ [][NextBucketsRead]_vars

\* Histograms of longer sessions, for the read-out alone.  A session that
\* adds the sample FilterBase first and then, in ascending order above it
\* and in descending order below it, c[k] times the sample 2k above it for
\* each bin k of the window, never deflates and ends in the state drawn
\* here: shift = min_shift, the window from lower to upper, c[k] samples of
\* equal value in bin k.
FilterCounts == {0, 1, 5}

FilterBase == U32(128, 0)

\* the sample of the bin in slot n of a window that ends at upper
SlotSample(n, upper) ==
    IF n < upper THEN Add32(FilterBase, U32(0, (2 ^ MinShift) * n))
    ELSE Sub32(FilterBase, U32(0, (2 ^ MinShift) * (BUCKET_COUNT - n)))

\* c samples of value v added up
Times32(c, v) ==
    LET lo == c * v[2]
    IN  U32((c * v[1] + (lo \div Half)) % Half, lo % Half)

FilterInput(upper, lower, c) ==
    [accu |-> [n \in 0..(BUCKET_COUNT - 1) |->
                  Times32(c[n], SlotSample(n, upper))],
     count |-> c, base |-> FilterBase, shift |-> MinShift,
     lower |-> lower, upper |-> upper, min_shift |-> MinShift]

InitFilter ==
    /\ InitBus
    /\ \E upper \in 1..BUCKET_COUNT, lower \in 1..BUCKET_COUNT,
          c \in [0..(BUCKET_COUNT - 1) -> FilterCounts] :
        /\ upper <= lower
        /\ c[0] >= 1
        /\ c[upper - 1] >= 1
        /\ lower < BUCKET_COUNT => c[lower] >= 1
        /\ \A n \in upper..(lower - 1) : c[n] = 0
        /\ buckets = FilterInput(upper, lower, c)
        /\ hist = [adds |-> FilterTotal(buckets, BUCKET_COUNT),
                   sum |-> Accumulate(buckets, NoRes, 0, BUCKET_COUNT).sum]

NextFilter == BucketsFilter

SpecFilter == InitFilter /\ [][NextFilter]_vars

(***************************************************************************)
(* The dispatcher's switch on its own: the host sends one well-formed      *)
(* frame after the other, each is received by the interrupt handler and    *)
(* taken over by twi_read before the next begins, and the dispatcher       *)
(* processes it.                                                           *)
(***************************************************************************)
MaxDispatch == 3

\* first payload bytes of the host's frames: the three confirmation values
\* and two others
FirstBytes ==
    {TWI_CONFIRM_CALIB_WRITE, TWI_CONFIRM_ADDR_WRITE, TWI_CONFIRM_DISABLE_WD,
     0, 255}

\* n payload bytes beginning with b
RECURSIVE HostChain(_, _)
HostChain(b, n) ==
    IF n = 0 THEN <<>> ELSE <<b>> \o HostChain(HostNext(b), n - 1)

\* the payload length the dispatcher requires of a command: the argument of
\* its expect_twi_data call
DispatchLen(c) ==
    CASE c = TWI_CMD_SET_CALIB -> SizeofCalibData
      [] c = TWI_CMD_ROTATE -> 2
      [] c \in {TWI_CMD_CALIB_WRITE, TWI_CMD_SET_ADDR, TWI_CMD_ADDR_WRITE,
                TWI_CMD_DISABLE_WD} -> 1
      [] OTHER -> 0

\* the handler serves the data interrupts of the bytes s[k], s[k + 1], ...
\* for as long as it acknowledges them
RECURSIVE RecvFrame(_, _, _)
RecvFrame(r, s, k) ==
    IF k > Len(s) \/ r.ctrl # "ACK" THEN r
    ELSE RecvFrame(ISR(r.t, Status(FALSE, FALSE, FALSE, TRUE, FALSE),
                       s[k], 0), s, k + 1)

\* a whole host-write transaction: address match, the bytes of s, stop
HostFrame(t, s) ==
    LET a == ISR(t, Status(TRUE, TRUE, FALSE, FALSE, FALSE), 0, 0)
        d == RecvFrame(a, s, 1)
    IN  ISR(d.t, Status(TRUE, FALSE, FALSE, FALSE, FALSE), 0, 0)

\* twi_read(&d) from entry to return
ReadInto(d, t) ==
    IF ReadReady(t)
    THEN [task |-> t.task, count |-> t.count,
          buf |-> MemcpyBuf(d.buf, t.buf, t.count)]
    ELSE [d EXCEPT !.task = TWI_CMD_NONE, !.count = 0]

\* the host sends the frame of command c, the dispatcher wakes up and, if
\* twi_task_pending(), calls twi_read
Deliver ==
    /\ pc = "loop"
    /\ naddr < MaxDispatch
    /\ \E c \in Commands, b \in FirstBytes :
           LET r == HostFrame(twi, <<c>> \o HostChain(b, DispatchLen(c)))
           IN  /\ twi_data' = IF r.t.task # TWI_CMD_NONE
                              THEN ReadInto(twi_data, r.t) ELSE twi_data
               /\ twi' = IF ReadReady(r.t) THEN ReadClear(r.t) ELSE r.t
               /\ pc' = IF r.t.task # TWI_CMD_NONE THEN "d_switch"
                        ELSE "loop"
               /\ SCTRLB' = r.ctrl
    /\ DIR' = FALSE
    /\ naddr' = naddr + 1
    /\ ev' = "task"
    /\ UNCHANGED <<ie, arg, rx, tx, fin, off_bus>>

NextDispatch ==
    \/ Deliver
    \/ DispatchTemp
    \/ DispatchCalib
    \/ DispatchOther
    \/ LoadCheck
    \/ LoadTask
    \/ TwiWriteCopy

SpecDispatch == Init /\ [][NextDispatch]_vars

(***************************************************************************)
(* Properties.  The history variables make most of them state predicates:  *)
(* ev names the event just served, rx the bytes the host has sent in the   *)
(* frame, tx the bytes the client has emitted, fin the completed frame     *)
(* whose task is pending.                                                  *)
(***************************************************************************)
\* the write-type commands that carry no payload
ZeroPayloadWrite ==
    {TWI_CMD_OPEN_VALVE, TWI_CMD_CLOSE_VALVE, TWI_CMD_ENABLE_WD}

\* the payload length of a host frame, by its command byte
FrameLen(c) ==
    IF c = TWI_CMD_SET_CALIB THEN 6
    ELSE IF c \in {TWI_CMD_CALIB_WRITE, TWI_CMD_SET_ADDR, TWI_CMD_ADDR_WRITE,
                   TWI_CMD_DISABLE_WD} THEN 1
    ELSE 0

\* twi_read has just returned (no interrupt has been served since)
ReadReturned == pc = "d_switch" /\ ev = "task"

\* C1: the command byte of an open-valve, close-valve or enable-watchdog
\* frame, received as the first byte after an accepted host-write address
\* match, leaves the state Idle, the task equal to the command and blocked
\* set; twi_read returns that command with count 0; when it has returned the
\* command, task and blocked are cleared; twi_read copies a task only while
\* a completed frame is outstanding, so a further call returns TWI_CMD_NONE.
C1_ZeroPayloadWrite ==
    /\ (ev = "recv" /\ Len(rx) = 1 /\ rx[1] \in ZeroPayloadWrite)
           => (twi.state = IDLE /\ twi.task = rx[1] /\ twi.blocked)
    /\ (pc = "r_clr" /\ fin.task \in ZeroPayloadWrite)
           => (twi_data.task = fin.task /\ twi_data.count = 0)
    /\ (ReadReturned /\ twi_data.task \in ZeroPayloadWrite)
           => (twi.task = TWI_CMD_NONE /\ ~twi.blocked /\ fin = NoFin)
    /\ (pc \in {"r_copy", "r_clr"}) => fin # NoFin
    /\ (ReadReturned /\ twi_data.task # TWI_CMD_NONE) => fin = NoFin

\* twi_read has delivered a zero-payload write-type command
C1_Witness ==
    /\ ReadReturned
    /\ twi_data.task \in ZeroPayloadWrite
    /\ twi_data.count = 0
    /\ twi.task = TWI_CMD_NONE
    /\ ~twi.blocked

\* C2: in a host frame whose command has payload length N > 0, the expected
\* count is N from the event that receives the command byte on; after each
\* receive event with fewer than N payload bytes arrived the task is
\* TWI_CMD_NONE and the state InProgress; after the event that delivers the
\* N-th payload byte the state is Idle and the task is the command.
C2_FramedWrite ==
    (ev = "recv" /\ rx # <<>> /\ FrameLen(rx[1]) > 0)
        => /\ twi.count = FrameLen(rx[1])
           /\ Len(rx) - 1 <= FrameLen(rx[1])
           /\ IF Len(rx) - 1 < FrameLen(rx[1])
              THEN twi.task = TWI_CMD_NONE /\ twi.state = IN_PROGRESS
              ELSE twi.task = rx[1] /\ twi.state = IDLE

\* the sixth payload byte of a set-calibration frame has just arrived
C2_Witness ==
    /\ ev = "recv"
    /\ Len(rx) = 7
    /\ rx[1] = TWI_CMD_SET_CALIB
    /\ twi.state = IDLE
    /\ twi.task = TWI_CMD_SET_CALIB

\* C3: an address match served while blocked is set is NACKed and leaves the
\* state Idle; while blocked is set the pending task, its count and its
\* payload bytes are those of the frame the host completed; the payload
\* twi_read copies for a write-type command is the byte sequence the host
\* sent after the command byte.
C3_BlockedKeepsPayload ==
    /\ (ev = "addr" /\ twi.blocked)
           => (SCTRLB = "NACK" /\ twi.state = IDLE)
    /\ twi.blocked
           => /\ twi.task = fin.task
              /\ twi.count = Len(fin.payload)
              /\ Prefix(twi.buf, twi.count) = fin.payload
    /\ (pc = "r_clr" /\ twi_data.task \in BlockingCommands)
           => /\ twi_data.count = Len(fin.payload)
              /\ Prefix(twi_data.buf, twi_data.count) = fin.payload

\* a set-calibration frame is copied by twi_read after a second address
\* match was refused while it was pending
C3_Witness ==
    /\ pc = "r_clr"
    /\ twi_data.task = TWI_CMD_SET_CALIB
    /\ Len(fin.payload) = 6
    /\ naddr = 2
    /\ rx = <<>>
    /\ SCTRLB = "NACK"

\* C4: whenever twi_read has copied a task, a completed frame is outstanding
\* (each is handed over once: the hand-over ends it) and the task, the count
\* and the payload copied are all those of that one frame.
C4_HandOffAtomic ==
    /\ pc = "r_copy" => (fin # NoFin /\ twi_data.task = fin.task)
    /\ pc = "r_clr"
           => /\ fin # NoFin
              /\ twi_data.task = fin.task
              /\ twi_data.count = Len(fin.payload)
              /\ Prefix(twi_data.buf, twi_data.count) = fin.payload

\* twi_read has copied a set-calibration frame that the host completed as
\* its second transaction
C4_Witness ==
    /\ pc = "r_clr"
    /\ fin.task = TWI_CMD_SET_CALIB
    /\ naddr = 2
    /\ SCTRLB = "NACK"
    /\ Len(rx) = 7

\* the task steps that change the payload, the count or loaded
Staged ==
    /\ ev' \in {"task", "busy", "quiet"}
    /\ \/ twi'.buf # twi.buf
       \/ twi'.count # twi.count
       \/ twi'.loaded # twi.loaded

\* twi_write is between its final check of the state and the end of its copy
Staging == pc \in {"l_task", "w_copy"}

\* C5: twi_write and twi_write_P change the payload, the count or loaded
\* only while the state is not InProgress; they sleep with
\* interrupts enabled while the bus is not idle, and from the final check of
\* the state until the copy is finished interrupts are masked.
C5_StagingExcludesTransfer ==
    /\ [](Staging => (~ie /\ twi.state # IN_PROGRESS))
    /\ [](pc = "l_sleep" => (ie /\ twi.state # IDLE))
    /\ [][Staged => (Staging /\ ~ie /\ twi.state # IN_PROGRESS)]_vars

\* twi_write slept through a transfer and woke up to an idle bus with no task
\* pending: it goes on to stage its response
C5_Witness ==
    /\ pc = "l_woke"
    /\ twi.state = IDLE
    /\ twi.task = TWI_CMD_NONE
    /\ arg.count > 0

\* C6: a host-read address match is answered with ACK exactly when a
\* response is loaded; then the state is Started and the cursor and the
\* accumulator are 0; when none is loaded the answer is NACK, the state
\* is Idle and no byte has been emitted for the transaction.
C6_ReadNeedsLoaded ==
    /\ (ev = "addr" /\ DIR) => (SCTRLB = "ACK" <=> twi.loaded)
    /\ (ev = "addr" /\ DIR /\ twi.loaded)
           => (twi.state = STARTED /\ twi.index = 0 /\ twi.crc = 0)
    /\ (ev = "addr" /\ DIR /\ ~twi.loaded)
           => (SCTRLB = "NACK" /\ twi.state = IDLE)
    /\ (DIR /\ SCTRLB = "NACK") => tx = <<>>
    /\ (DIR /\ tx # <<>>) => twi.loaded

\* a host-read address match has just been refused: no response is loaded
C6_Witness ==
    /\ ev = "addr"
    /\ DIR
    /\ ~twi.loaded
    /\ SCTRLB = "NACK"
    /\ twi.state = IDLE
    /\ naddr = 2

\* the CRC-5 of a byte sequence, accumulated from 0
RECURSIVE Crc5(_)
Crc5(s) ==
    IF s = <<>> THEN 0
    ELSE UpdateCrc(Crc5(SubSeq(s, 1, Len(s) - 1)), s[Len(s)])

\* the frame of a host-read: the staged payload and the trailer byte
TxFrame ==
    LET payload == Prefix(twi.buf, twi.count)
    IN  payload \o <<Crc5(payload) % 32>>

\* C7: in an accepted host-read transaction each data request the host makes
\* after an ACK emits the next byte of the frame payload[0..M-1], trailer
\* (the low 5 bits of the CRC-5 of the payload) while the frame is not
\* complete; the request after the trailer emits nothing and sets the state
\* to Idle, and so does a request that carries a NACK when the state is not
\* Started.
C7_TransmitFrame ==
    /\ []((DIR /\ twi.state # IDLE)
             => (Len(tx) <= twi.count + 1
                    /\ tx = SubSeq(TxFrame, 1, Len(tx))))
    /\ [][ev' = "send"
             => IF Len(tx) <= twi.count
                THEN tx' = Append(tx, TxFrame[Len(tx) + 1])
                         /\ twi'.state # IDLE
                ELSE tx' = tx /\ twi'.state = IDLE]_vars
    /\ [][(ev' = "nack" /\ twi.state # STARTED)
             => (tx' = tx /\ twi'.state = IDLE)]_vars

\* the request after the trailer of a six-byte response has been served
C7_Witness ==
    /\ ev = "send"
    /\ twi.state = IDLE
    /\ twi.count = 6
    /\ tx = TxFrame

C10_StateOwnedByHandler ==
    [][twi'.state # twi.state
          => ev' \in {"addr", "stop", "recv", "send", "nack"}]_vars

\* twi_reset is half done while a host frame is in progress
C10_Witness ==
    /\ pc = "x_task"
    /\ twi.state = IN_PROGRESS
    /\ twi.cmd = TWI_CMD_NONE

\* C11 (as the code has it): an accepted address match sets the busy
\* flag, a refused one leaves it as it was; the flag changes in no other
\* step but a twi_busy poll, which returns true exactly when the flag is set
\* and leaves it cleared, so a poll with no accepted address match since the
\* previous poll returns false.
C11_BusyFlag ==
    [][/\ (ev' = "addr" /\ SCTRLB' = "ACK") => twi'.busy
       /\ (ev' = "addr" /\ SCTRLB' = "NACK") => twi'.busy = twi.busy
       /\ (twi'.busy # twi.busy)
              => ((ev' = "addr" /\ SCTRLB' = "ACK") \/ ev' = "busy")
       /\ ev' = "busy" => (twi.busy /\ ~twi'.busy)
       /\ ev' = "quiet" => (~twi.busy /\ ~twi'.busy)]_vars

\* a poll has returned true and cleared the flag after the host was served
C11_Witness ==
    /\ ev = "busy"
    /\ ~twi.busy
    /\ naddr = 1

\* C11 as stated: after every address-phase event, accepted or refused, the
\* busy flag is set.
C11_Stated ==
    ev = "addr" => twi.busy

\* C12: the handler invocation that receives the command byte get-version
\* completes the host-write (NACK, state Idle) raising no task and leaving
\* blocked clear as it was, and has staged the version record: count = 5,
\* loaded set, payload bytes 0..4 equal to version_info.
C12_VersionInHandler ==
    (ev = "recv" /\ Len(rx) = 1 /\ rx[1] = TWI_CMD_GET_VERSION)
        => /\ SCTRLB = "NACK"
           /\ twi.state = IDLE
           /\ twi.task = TWI_CMD_NONE
           /\ ~twi.blocked
           /\ twi.count = 5
           /\ twi.loaded
           /\ Prefix(twi.buf, 5) = version_info

\* the get-version command byte has just been served
C12_Witness ==
    /\ ev = "recv"
    /\ rx = <<TWI_CMD_GET_VERSION>>
    /\ twi.loaded
    /\ twi.count = SizeofVersionInfo
    /\ twi.task = TWI_CMD_NONE

\* C13: a stop condition, a host-write data event that finds the state not
\* Started and the cursor at or past the expected count, and an interrupt
\* with neither the address nor the data flag change nothing of the driver
\* but the state, which becomes Idle; an event that ends a host-write whose
\* payload is incomplete leaves the task TWI_CMD_NONE and blocked as it was.
C13_ErrorsResetState ==
    [][/\ ev' \in {"stop", "none"} => twi' = [twi EXCEPT !.state = IDLE]
       /\ (ev' = "recv" /\ twi.state # STARTED /\ twi.index >= twi.count)
              => twi' = [twi EXCEPT !.state = IDLE]
       /\ (twi.state = IN_PROGRESS /\ ~DIR /\ twi.index < twi.count
               /\ ev' # "recv")
              => (twi'.task = TWI_CMD_NONE /\ twi'.blocked = twi.blocked)]_vars

\* a host-write data event has been refused: the state was not Started and the
\* cursor had reached the expected count
C13_Witness ==
    /\ ev = "recv"
    /\ rx = <<>>
    /\ SCTRLB = "NACK"
    /\ twi.state = IDLE
    /\ twi.cmd = TWI_CMD_SET_ADDR
    /\ twi.index = 1
    /\ twi.blocked

\* C14: CRC residue.  For every byte sequence fed to the accumulator from
\* its reset value 0, feeding the trailer byte (crc & 0x1f) afterwards
\* leaves an accumulator whose low five bits are zero.
C14_Residue == upd.trailer => twi.crc % 32 = 0

C14_Witness == upd.trailer /\ upd.n = MaxCrcLen /\ upd.crc = 21 /\ twi.crc = 0

\* the bit-serial CRC-5 with polynomial 0x15, reflected: the bits of the
\* byte are taken least significant first, the register shifts right
CRC5_POLY == 21

RECURSIVE SerialCrc5(_, _, _)
SerialCrc5(crc, val, k) ==
    IF k = 8 THEN crc
    ELSE LET bit == (crc + (val \div (2 ^ k))) % 2
             shifted == crc \div 2
         IN  SerialCrc5(IF bit = 1 THEN BitXor(shifted, CRC5_POLY)
                        ELSE shifted, val, k + 1)

\* C15: for every accumulator value 0..31 and every byte, the table-driven
\* twi_update_crc returns what the bit-serial reference returns, and the
\* accumulator stays within 0..31.
C15_TableIsSerial ==
    /\ twi.crc \in 0..31
    /\ upd.n > 0 => twi.crc = SerialCrc5(upd.crc, upd.val, 0)

C15_Witness ==
    upd.n = MaxCrcLen /\ ~upd.trailer /\ upd.crc = 31 /\ upd.val = 255

\* the sum of the first n bin counts, and of the first n bin sums modulo 2^32
RECURSIVE CountsTo(_, _)
CountsTo(b, n) == IF n = 0 THEN 0 ELSE CountsTo(b, n - 1) + b.count[n - 1]

RECURSIVE AccuTo(_, _)
AccuTo(b, n) ==
    IF n = 0 THEN Zero32 ELSE Add32(AccuTo(b, n - 1), b.accu[n - 1])

\* C16: histogram conservation.  After each buckets_add the eight bin counts
\* add up to the number of calls since the reset, and the eight bin sums add
\* up to the sum of the inserted values modulo 2^32.
C16_Conservation ==
    add.pc = "idle" =>
        /\ CountsTo(buckets, BUCKET_COUNT) = hist.adds
        /\ AccuTo(buckets, BUCKET_COUNT) = hist.sum

\* the 256th equal sample has wrapped the counter of bin 0
C16_Witness ==
    /\ add.pc = "idle"
    /\ hist.adds = 256
    /\ CountsTo(buckets, BUCKET_COUNT) = 0
    /\ AccuTo(buckets, BUCKET_COUNT) = hist.sum

\* C17: buckets_add terminates.  The shift count stays below the width of
\* the shifted int32_t, and a call that has entered the loop leaves it and
\* returns.
C17_AddTerminates ==
    /\ [](buckets.shift < 32)
    /\ (add.pc = "loop" ~> add.pc = "idle")

\* the loop has run many times for a sample at the far end of the range
C17_Witness ==
    /\ add.pc = "loop"
    /\ add.val = U32(34261, 21845)
    /\ buckets.shift = 28

\* floor((v - base) / 2^shift) for the 32-bit values v and base, computed
\* without wrap-around; indices beyond the eight bins on either side are
\* reported as 8 and -8
Clamp(k) ==
    IF k > BUCKET_COUNT THEN BUCKET_COUNT
    ELSE IF k < -BUCKET_COUNT THEN -BUCKET_COUNT ELSE k

LogicalIndex(v, base, shift) ==
    LET dl == v[2] - base[2]
        dh == v[1] - base[1] + (dl \div Half)
        lo == dl % Half
    IN  IF shift >= 16 THEN Clamp(dh \div (2 ^ (shift - 16)))
        ELSE IF dh >= BUCKET_COUNT THEN BUCKET_COUNT
        ELSE IF dh < -BUCKET_COUNT THEN -BUCKET_COUNT
        ELSE Clamp(dh * (2 ^ (16 - shift)) + (lo \div (2 ^ shift)))

\* a step in which buckets_add returns, and the sample it has stored
AddReturns == add'.pc = "idle" /\ hist'.adds = hist.adds + 1
AddedVal == Sub32(hist'.sum, hist.sum)

\* C18: correct bin placement.  When buckets_add(v) returns, v has been
\* accumulated into the bin with logical index k = floor((v - base) /
\* 2^shift) for the current base and shift, stored at k for k >= 0 and at
\* k + 8 for k < 0, and -8 < k < 8.
C18_Placement ==
    [][AddReturns =>
        LET k == LogicalIndex(AddedVal, buckets'.base, buckets'.shift)
            slot == IF k < 0 THEN k + BUCKET_COUNT ELSE k
        IN  /\ -BUCKET_COUNT < k
            /\ k < BUCKET_COUNT
            /\ buckets'.count[slot] = (buckets.count[slot] + 1) % 256
            /\ buckets'.accu[slot] = Add32(buckets.accu[slot], AddedVal)
      ]_vars

\* a sample 512 above the base, 256 bins of width 2 away, has been counted
\* in bin 0 without any deflation
C18_Witness ==
    /\ add.pc = "idle"
    /\ hist.adds = 2
    /\ buckets.base = U32(128, 0)
    /\ hist.sum = Add32(U32(128, 0), U32(128, 512))
    /\ buckets.shift = MinShift
    /\ buckets.count[0] = 2

\* the sum and count held for a logical bin of the window: positive-side bin
\* p is slot p below upper, negative-side bin -m is slot 8 - m from lower on
EmptyBin == [accu |-> Zero32, count |-> 0]

Slot(b, n) == [accu |-> b.accu[n], count |-> b.count[n]]

PosBin(b, p) == IF p < b.upper THEN Slot(b, p) ELSE EmptyBin

NegBin(b, m) ==
    IF BUCKET_COUNT - m >= b.lower THEN Slot(b, BUCKET_COUNT - m)
    ELSE EmptyBin

Pair(x, y) ==
    [accu |-> Add32(x.accu, y.accu), count |-> x.count + y.count]

\* the window's number of slots in use
Span(b) == b.upper + (BUCKET_COUNT - b.lower)

\* c is b deflated
Deflated(b, c) ==
    /\ c.shift = b.shift + 1
    /\ c.base = b.base
    /\ 2 * c.upper >= b.upper
    /\ 2 * (BUCKET_COUNT - c.lower) >= BUCKET_COUNT - b.lower
    /\ \A j \in 0..(c.upper - 1) :
           Slot(c, j) = Pair(PosBin(b, 2 * j), PosBin(b, 2 * j + 1))
    /\ \A n \in 1..(BUCKET_COUNT - c.lower) :
           Slot(c, BUCKET_COUNT - n) =
               Pair(NegBin(b, 2 * n - 1), NegBin(b, 2 * n))
    /\ \A n \in c.upper..(c.lower - 1) : Slot(c, n) = EmptyBin
    /\ b.upper = b.lower => Span(c) <= 5

Occupied(b) == {n \in 0..(BUCKET_COUNT - 1) : b.count[n] > 0}

\* a step of buckets_reset
IsReset == hist' = NoHist /\ add'.pc = "idle" /\ buckets_empty(buckets')

\* C20: histogram bounds.  The occupied bins lie inside the window, whose
\* two sides never take more than the 8 slots; shift never decreases between
\* resets: the first add sets it to min_shift and only deflate increments it.
C20_Bounds ==
    /\ [](/\ Span(buckets) <= BUCKET_COUNT
          /\ \A n \in Occupied(buckets) :
                 n < buckets.upper \/ n >= buckets.lower)
    /\ [][/\ buckets'.shift < buckets.shift => IsReset
          /\ (buckets_empty(buckets) /\ ~buckets_empty(buckets'))
                 => buckets'.shift = buckets.min_shift
          /\ buckets'.shift # buckets.shift =>
                 \/ IsReset
                 \/ buckets_empty(buckets)
                 \/ add'.pc = "loop" /\ buckets'.shift = buckets.shift + 1
         ]_vars

\* after a deflation the window has filled up again
C20_Witness ==
    /\ add.pc = "idle"
    /\ hist.adds = MaxAdds
    /\ buckets.shift = MinShift + 1
    /\ Span(buckets) >= BUCKET_COUNT - 1
    /\ Cardinality(Occupied(buckets)) >= 6

\* the window's slots in ascending value order: the negative-offset bins
\* from lower to 7, then the bins from 0 to upper - 1
Logical(b) ==
    [i \in 1..Span(b) |->
        IF i <= BUCKET_COUNT - b.lower THEN b.lower + i - 1
        ELSE i - (BUCKET_COUNT - b.lower) - 1]

\* sum and count of the bins i..j of that order
RECURSIVE RangeSum(_, _, _, _)
RangeSum(b, ord, i, j) ==
    IF i > j THEN EmptyBin
    ELSE Pair(Slot(b, ord[i]), RangeSum(b, ord, i + 1, j))

\* what the trimmed read-out of b has to be
Trimmed(b) ==
    LET total == CountsTo(b, BUCKET_COUNT)
        thresh == total \div BUCKET_COUNT
        ord == Logical(b)
        full == {i \in 1..Span(b) : b.count[ord[i]] >= thresh}
        first == CHOOSE i \in full : \A k \in full : i <= k
        last == CHOOSE i \in full : \A k \in full : i >= k
        kept == RangeSum(b, ord, first, last)
    IN  [sum |-> kept.accu, count |-> kept.count, total |-> total]

C22_NonDestructive ==
    [][res' # res =>
          /\ buckets' = buckets
          /\ add' = add
          /\ hist' = hist
          /\ buckets_filter(buckets') = res']_vars

\* a read-out of two samples was taken and a third sample was added after it
C22_Witness ==
    /\ res.total = 2
    /\ res.count = 2
    /\ CountsTo(buckets, BUCKET_COUNT) = 3
    /\ add.pc = "idle"

\* C23: calibration round trip.  Once the dispatcher has processed a
\* set-calibration command with the 6-byte payload P, a get-calibration
\* command passes exactly the bytes P to twi_write, and what twi_write then
\* stages, until the host's next command, are these 6 bytes.
C23_RoundTrip ==
    (twi_data.task = TWI_CMD_GET_CALIB /\ set_calib # <<>>) =>
        /\ pc = "l_chk" =>
              arg.count = SizeofCalibData /\ arg.data = set_calib
        /\ (pc = "loop" /\ twi.loaded /\ twi.cmd = TWI_CMD_GET_CALIB) =>
              /\ twi.count = SizeofCalibData
              /\ Prefix(twi.buf, SizeofCalibData) = set_calib

\* set-calibration with a payload whose bytes all have the top bit patterns
\* mixed, calib-write, then get-calibration: the payload is staged again
C23_Witness ==
    /\ twi_data.task = TWI_CMD_GET_CALIB
    /\ twi.cmd = TWI_CMD_GET_CALIB
    /\ pc = "loop"
    /\ twi.loaded
    /\ set_calib = HostChain(255, SizeofCalibData)
    /\ Prefix(twi.buf, SizeofCalibData) = <<255, 36, 73, 110, 147, 184>>
    /\ globals.calib_data = [offset |-> U32(65316, 18798), scale |-> 37816]
    /\ globals.nvm_calib_data = globals.calib_data

\* the globals the confirmed commands act on
Guarded(g) ==
    <<g.calib_data, g.twi_addr, g.wd_disabled, g.nvm_calib_data,
      g.nvm_twi_addr>>

\* twi_data carries exactly one payload byte, the confirmation value of
\* its command
HasConfirmation(d) ==
    /\ d.count = 1
    /\ \/ d.task = TWI_CMD_DISABLE_WD /\ d.buf[0] = 154
       \/ d.task = TWI_CMD_CALIB_WRITE /\ d.buf[0] = 58
       \/ d.task = TWI_CMD_ADDR_WRITE /\ d.buf[0] = 106

ConfirmedCommands ==
    {TWI_CMD_DISABLE_WD, TWI_CMD_CALIB_WRITE, TWI_CMD_ADDR_WRITE}

\* the three guarded effects happen only in a dispatch whose task carries
\* its confirmation
GuardedEffects ==
    /\ (globals'.wd_disabled /\ ~globals.wd_disabled) =>
           (twi_data.task = TWI_CMD_DISABLE_WD /\ HasConfirmation(twi_data))
    /\ globals'.nvm_calib_data # globals.nvm_calib_data =>
           (twi_data.task = TWI_CMD_CALIB_WRITE /\ HasConfirmation(twi_data))
    /\ globals'.nvm_twi_addr # globals.nvm_twi_addr =>
           (twi_data.task = TWI_CMD_ADDR_WRITE /\ HasConfirmation(twi_data))

Unconfirmed ==
    /\ pc = "d_switch"
    /\ twi_data.task \in ConfirmedCommands
    /\ ~HasConfirmation(twi_data)

PayloadCommands ==
    {TWI_CMD_SET_CALIB, TWI_CMD_CALIB_WRITE, TWI_CMD_SET_ADDR,
     TWI_CMD_ADDR_WRITE, TWI_CMD_DISABLE_WD, TWI_CMD_ROTATE}

\* C25: payload length agreement.  For every command that carries a
\* payload, the count twi_read delivers for a complete well-formed frame is
\* the count the dispatcher requires (6 for set-calibration, 1 for
\* calib-write, set-address, addr-write and disable-watchdog, 2 for rotate).
C25_LengthsAgree ==
    (pc = "d_switch" /\ twi_data.task \in PayloadCommands) =>
        twi_data.count = DispatchLen(twi_data.task)

\* the frame of a rotate command reaches the dispatcher without payload
C25_Witness ==
    /\ pc = "d_switch"
    /\ twi_data.task = TWI_CMD_ROTATE
    /\ twi_data.count = 0
    /\ ~globals.stepper_running

\* the version record staged by the handler is waiting for the host: the
\* last command is get-version and no address match has followed its frame
VersionWaiting ==
    /\ twi.cmd = TWI_CMD_GET_VERSION
    /\ ~DIR
    /\ twi.state = IDLE
    /\ twi.loaded
    /\ twi.count = SizeofVersionInfo
    /\ Prefix(twi.buf, SizeofVersionInfo) = version_info

\* C26: after a get-version command completes, no step of the task context
\* (a twi_write of the dispatcher) replaces the staged version record before
\* the host reads it, so the next accepted host-read emits the version
\* record.
C26_VersionKept ==
    [][(VersionWaiting /\ ev' = "task") =>
          /\ twi'.count = SizeofVersionInfo
          /\ Prefix(twi'.buf, SizeofVersionInfo) = version_info]_vars

\* the host-read that follows the get-version frame has emitted the bytes of
\* a weight: track-weight, get-version, then the read
C26_Witness ==
    /\ twi.cmd = TWI_CMD_GET_VERSION
    /\ twi_data.task = TWI_CMD_TRACK_WEIGHT
    /\ DIR
    /\ naddr = 3
    /\ Len(tx) >= 4
    /\ SubSeq(tx, 1, 4) = <<10, 11, 12, 13>>

\* the commands whose task finish_recv raises without setting blocked
NonBlockingTasks ==
    {TWI_CMD_SLEEP, TWI_CMD_MEASURE_WEIGHT, TWI_CMD_TRACK_WEIGHT,
     TWI_CMD_GET_TEMP, TWI_CMD_GET_CALIB}

\* the pending task of a non-blocking command is changed by this step
NonBlockingChanged ==
    twi.task \in NonBlockingTasks /\ twi'.task # twi.task

\* the step is twi_read's hand-over of the task to the dispatcher
ReadReturns ==
    /\ pc = "r_clr"
    /\ pc' = "d_switch"
    /\ twi_data.task = twi.task
    /\ twi'.task = TWI_CMD_NONE

\* C27 as stated: no command is lost.  The task raised by a completed
\* non-blocking command stays pending, unmodified, until a twi_read returns
\* it, whatever host-write transactions the host starts or completes
\* meanwhile.
C27_Stated ==
    [][NonBlockingChanged => ReadReturns]_vars

\* C27 as amended: the task raised by a completed non-blocking command stays
\* pending, unmodified, until a twi_read returns it or the handler receives
\* the command byte of a later host-write, which replaces it: by the new
\* command if that has no payload and is not get-version, by none otherwise.
\* Address matches, stop conditions and host-reads leave it alone.
C27_KeptUntilNextCommand ==
    [][NonBlockingChanged =>
          \/ ReadReturns
          \/ /\ ev' = "recv"
             /\ Len(rx') = 1
             /\ twi'.cmd = rx'[1]
             /\ twi'.task =
                   IF prepare_recv(twi').count > 0
                         \/ rx'[1] = TWI_CMD_GET_VERSION
                   THEN TWI_CMD_NONE ELSE rx'[1]]_vars

\* measure-weight is pending and the host has started the next host-write:
\* the address match has left the task in place
C27_Witness ==
    /\ twi.task = TWI_CMD_MEASURE_WEIGHT
    /\ fin.task = TWI_CMD_MEASURE_WEIGHT
    /\ ev = "addr"
    /\ ~DIR
    /\ twi.state = STARTED
    /\ naddr = 2

\* C28: in every state reached through interrupt events, twi_read and
\* twi_write, blocked set implies that a task is pending, that it is the
\* task of a blocking command and that the next twi_read can take it (the
\* state is not InProgress), which clears blocked.
C28_BlockedHasTask ==
    /\ twi.blocked =>
          /\ twi.task # TWI_CMD_NONE
          /\ twi.task \in BlockingCommands
          /\ ReadReady(twi)
    /\ (pc = "d_switch" /\ twi_data.task # TWI_CMD_NONE /\ ev = "task") =>
          ~twi.blocked

\* a set-calibration frame is pending and a second address match has just
\* been refused
C28_Witness ==
    /\ twi.blocked
    /\ twi.task = TWI_CMD_SET_CALIB
    /\ ev = "addr"
    /\ SCTRLB = "NACK"
    /\ naddr = 2

\* the step is the return of twi_reset (its second store) or a twi_get_task
\* that takes a task
ResetReturns ==
    /\ ev' = "task"
    /\ \/ pc = "x_task" /\ pc' = "loop"
       \/ /\ pc = "loop" /\ pc' = "loop"
          /\ twi.task # TWI_CMD_NONE
          /\ twi'.task = TWI_CMD_NONE

\* C29: after twi_reset or twi_get_task the client can accept a host-write
\* address match again: they do not leave blocked set with no pending task.
C29_ResetUnblocks ==
    [][ResetReturns => ~(twi'.blocked /\ twi'.task = TWI_CMD_NONE)]_vars

\* blocked is set, nothing is pending and the host's next address match has
\* just been refused
C29_Witness ==
    /\ twi.blocked
    /\ twi.task = TWI_CMD_NONE
    /\ pc = "loop"
    /\ ev = "addr"
    /\ ~DIR
    /\ SCTRLB = "NACK"

WriteFindsTask == pc = "l_task" /\ twi.task # TWI_CMD_NONE

BusStep == ev' \notin {"task", "busy", "quiet"}

\* C32: a staged response stays readable.  loaded is cleared only by an
\* accepted host-write address match; as long as it is set and the last
\* command is not track-weight no bus event changes the payload bytes or the
\* count, so every host-read transaction emits the same frame.
C32_StaysReadable ==
    /\ [][(twi.loaded /\ ~twi'.loaded) =>
             (ev' = "addr" /\ ~DIR' /\ SCTRLB' = "ACK")]_vars
    /\ [][(twi.loaded /\ twi'.loaded /\ BusStep
              /\ twi.cmd # TWI_CMD_TRACK_WEIGHT) =>
             (twi'.buf = twi.buf /\ twi'.count = twi.count)]_vars
    /\ [][(twi.loaded /\ ev' = "addr" /\ DIR') =>
             (SCTRLB' = "ACK" /\ twi'.crc = 0 /\ twi'.index = 0)]_vars

\* the calibration response has been read to its trailer in the third
\* transaction and is still loaded
C32_Witness ==
    /\ naddr = 3
    /\ DIR
    /\ twi.loaded
    /\ twi.cmd = TWI_CMD_GET_CALIB
    /\ twi.count = SizeofCalibData
    /\ tx = TxFrame
    /\ twi.state = IDLE

\* C33: track-weight transform.  When the last received command is
\* track-weight and a response is loaded, an accepted host-read address
\* match sets payload byte 4 to (time in ms - payload byte 5) modulo 256 and
\* the count to 5 before any byte is sent and leaves the other payload bytes
\* as they are; the transaction then emits at most these 5 bytes and the
\* trailer computed over them.
C33_TrackTransform ==
    /\ [][(ev' = "addr" /\ DIR' /\ twi.loaded
              /\ twi.cmd = TWI_CMD_TRACK_WEIGHT) =>
             /\ SCTRLB' = "ACK"
             /\ tx' = <<>>
             /\ twi'.count = 5
             /\ \E time \in Times :
                    twi'.buf[4] = (time - twi.buf[5] + 256) % 256
             /\ \A i \in (0..(TWI_BUFFER_SIZE - 1)) \ {4} :
                    twi'.buf[i] = twi.buf[i]]_vars
    /\ []((DIR /\ twi.cmd = TWI_CMD_TRACK_WEIGHT /\ tx # <<>>
               /\ twi.state # IDLE) =>
             /\ twi.count = 5
             /\ Len(tx) <= 6
             /\ tx = SubSeq(Prefix(twi.buf, 5)
                               \o <<Crc5(Prefix(twi.buf, 5)) % 32>>,
                            1, Len(tx)))

\* a weight staged at time 250 has been read at time 5: four weight bytes,
\* the elapsed time 11 and the trailer
C33_Witness ==
    /\ DIR
    /\ twi.cmd = TWI_CMD_TRACK_WEIGHT
    /\ twi.buf[5] = 250
    /\ Len(tx) = 6
    /\ SubSeq(tx, 1, 5) = <<10, 11, 12, 13, 11>>
    /\ tx[6] = Crc5(<<10, 11, 12, 13, 11>>) % 32

WaitCliOpen == TRUE

\* cli() in wait_for_input: the interrupt flag afterwards
WaitCli == FALSE

\* wait_for_input: cli(), set_sleep_mode, sleep_enable
WaitEnter ==
    /\ pc = "loop"
    /\ ie' = WaitCli
    /\ pc' = "i_chk"
    /\ ev' = "task"
    /\ UNCHANGED <<twi, hw, off_bus, twi_data, arg, rx, tx, fin>>

\* the loop condition; other is the disjunction of hx711_is_data_available(),
\* debug_char_pending() and stepper_has_new_cycle()
WaitCheck ==
    /\ pc = "i_chk"
    /\ \E other \in BOOLEAN :
           pc' = IF twi.task # TWI_CMD_NONE \/ other THEN "i_done"
                 ELSE "i_halt"
    /\ ev' = "task"
    /\ UNCHANGED <<twi, hw, off_bus, ie, twi_data, arg, rx, tx, fin>>

\* sei(); sleep_cpu(): the instruction after sei runs before any interrupt
WaitHalt ==
    /\ pc = "i_halt"
    /\ ie' = TRUE
    /\ pc' = "i_sleep"
    /\ ev' = "task"
    /\ UNCHANGED <<twi, hw, off_bus, twi_data, arg, rx, tx, fin>>

\* after the CPU woke up: cli(); if (twi_busy()) wdt_reset();
WaitWoke ==
    /\ pc = "i_woke"
    /\ ie' = WaitCli
    /\ twi' = [twi EXCEPT !.busy = FALSE]
    /\ pc' = "i_chk"
    /\ ev' = IF twi.busy THEN "busy" ELSE "quiet"
    /\ UNCHANGED <<hw, off_bus, twi_data, arg, rx, tx, fin>>

\* the loop is left: sleep_disable(); sei();
WaitDone ==
    /\ pc = "i_done"
    /\ ie' = TRUE
    /\ pc' = "i_task"
    /\ ev' = "task"
    /\ UNCHANGED <<twi, hw, off_bus, twi_data, arg, rx, tx, fin>>

\* loop(): if (twi_task_pending()) after wait_for_input returned
WaitTaskPending ==
    /\ pc = "i_task"
    /\ pc' = IF twi.task # TWI_CMD_NONE THEN "r_call" ELSE "loop"
    /\ ev' = "task"
    /\ UNCHANGED <<twi, hw, off_bus, ie, twi_data, arg, rx, tx, fin>>

wait_for_input ==
    \/ WaitEnter
    \/ WaitCheck
    \/ WaitHalt
    \/ WaitWoke
    \/ WaitDone

NextWait ==
    \/ AddressMatchUpTo(MaxAddrWait)
    \/ Stop
    \/ DataRecv
    \/ DataSend
    \/ OtherInterrupt
    \/ wait_for_input
    \/ WaitTaskPending
    \/ twi_read
    \/ DispatchOther
    \/ twi_write

SpecWait == Init /\ [][NextWait]_vars

\* C35: no lost wake-up.  In wait_for_input and twi_prepare_load the loop
\* predicate is tested with interrupts masked, interrupts are enabled again
\* only by the step that halts the CPU, the task context is never asleep
\* while a task is pending (wait_for_input) or the driver is idle
\* (twi_prepare_load), and a test that finds its predicate true leaves the
\* loop.
C35_NoLostWakeup ==
    /\ [](pc \in {"i_chk", "i_halt", "l_chk"} => ~ie)
    /\ [](pc = "i_sleep" => (ie /\ twi.task = TWI_CMD_NONE))
    /\ [](pc = "l_sleep" => (ie /\ twi.state # IDLE))
    /\ [][(pc = "i_chk" /\ twi.task # TWI_CMD_NONE) => pc' = "i_done"]_vars
    /\ [][(pc = "l_chk" /\ twi.state = IDLE) => pc' = "l_task"]_vars
    /\ [][(~ie /\ ie' /\ pc \in {"i_chk", "i_halt", "l_chk"}) =>
             pc' \in {"i_sleep", "l_sleep"}]_vars

\* the handler finished a command while wait_for_input was asleep: the task
\* context has woken up and is about to test its predicate
C35_Witness ==
    /\ pc = "i_woke"
    /\ ev = "recv"
    /\ twi.task # TWI_CMD_NONE
    /\ twi.state = IDLE

(***************************************************************************)
(* The firmware's use of the driver under fairness: the task context takes *)
(* its next step inside twi_write, and a transaction the host has started  *)
(* comes to its stop condition.                                            *)
(***************************************************************************)
NextFair ==
    \/ AddressMatchUpTo(MaxAddrFair)
    \/ Stop
    \/ DataRecv
    \/ DataSend
    \/ OtherInterrupt
    \/ twi_task_pending
    \/ twi_read
    \/ DispatchOther
    \/ twi_write
    \/ twi_busy

\* the steps of twi_prepare_load and twi_write behind the call
WriteStep == LoadCheck \/ LoadWoke \/ LoadTask \/ TwiWriteCopy

\* the stop condition of a transaction in progress.  The interrupt flag is
\* latched while interrupts are masked, so the handler runs once they are
\* enabled again: the fairness is strong.
TransactionEnds == twi.state # IDLE /\ Stop

SpecFair ==
    /\ Init
    /\ [][NextFair]_vars
    /\ WF_vars(WriteStep)
    /\ SF_vars(TransactionEnds)

InWrite == pc \in {"l_chk", "l_sleep", "l_woke", "l_task", "w_copy"}

\* C36: twi_write returns.  If every transaction the host starts ends, a
\* call of twi_write in progress returns to the dispatcher loop, and it
\* returns with interrupts enabled both when the response was staged and
\* when it was refused.
C36_WriteReturns ==
    /\ InWrite ~> (pc = "loop" /\ ie)
    /\ [][(InWrite /\ ~InWrite') => (pc' = "loop" /\ ie')]_vars

\* a call of twi_write(6, ...) went to sleep during a transaction and has
\* been woken by its stop condition
C36_Witness ==
    /\ pc = "l_woke"
    /\ ev = "stop"
    /\ twi.state = IDLE
    /\ arg.count = 6

\* C37: histogram window invariant.  From the first add after a reset on,
\* after every add and every deflate, 1 <= upper <= lower <= 8, every slot
\* in [upper, lower) has count 0 and sum 0 and bin 0 has count >= 1;
\* buckets_empty() stays false until buckets_reset, and base is written only
\* while the histogram is empty.
C37_Window ==
    /\ [](~buckets_empty(buckets) =>
             /\ 1 <= buckets.upper
             /\ buckets.upper <= buckets.lower
             /\ buckets.lower <= BUCKET_COUNT
             /\ \A n \in buckets.upper..(buckets.lower - 1) :
                    Slot(buckets, n) = EmptyBin
             /\ buckets.count[0] >= 1)
    /\ [][(~buckets_empty(buckets) /\ buckets_empty(buckets')) =>
             IsReset]_vars
    /\ [][buckets'.base # buckets.base => buckets_empty(buckets)]_vars

\* 256 equal samples after a reset: the 8-bit count of bin 0 is back at 0
C37_Witness ==
    /\ add.pc = "idle"
    /\ hist.adds = 256
    /\ buckets.upper = 1
    /\ buckets.count[0] = 0

(***************************************************************************)
(* Histograms of sessions of several hundred samples, for the read-out     *)
(* alone: the sessions of InitFilter with up to 250 samples in a bin, so   *)
(* that the 8-bit total of buckets_filter wraps, and the histogram after   *)
(* buckets_reset.                                                          *)
(***************************************************************************)
LongCounts == {0, 20, 250}

InitFilterLong ==
    /\ InitBus
    /\ \E upper \in 1..BUCKET_COUNT, lower \in 1..BUCKET_COUNT,
          c \in [0..(BUCKET_COUNT - 1) -> LongCounts] :
        /\ upper <= lower
        /\ c[0] >= 1
        /\ c[upper - 1] >= 1
        /\ lower < BUCKET_COUNT => c[lower] >= 1
        /\ \A n \in upper..(lower - 1) : c[n] = 0
        /\ buckets = FilterInput(upper, lower, c)
        /\ hist = [adds |-> FilterTotal(buckets, BUCKET_COUNT),
                   sum |-> Accumulate(buckets, NoRes, 0, BUCKET_COUNT).sum]

NextFilterLong ==
    \/ BucketsFilter
    \/ buckets_reset

SpecFilterLong == InitFilterLong /\ [][NextFilterLong]_vars

\* C38: the filter's scans stay in bounds.  In every histogram state, the
\* empty one included, some bin has count >= total / 8, buckets_start
\* returns a slot in 0..7 and buckets_end an end in 1..8, and the count
\* buckets_filter returns is at most its total and at least 1 when the
\* total is at least 1.
C38_ScansInBounds ==
    LET total == FilterTotal(buckets, BUCKET_COUNT)
        thresh == total \div BUCKET_COUNT
        r == buckets_filter(buckets)
    IN  /\ \E n \in 0..(BUCKET_COUNT - 1) : buckets.count[n] >= thresh
        /\ buckets_start(buckets, thresh) \in 0..(BUCKET_COUNT - 1)
        /\ buckets_end(buckets, thresh) \in 1..BUCKET_COUNT
        /\ r.total = total
        /\ r.count <= r.total
        /\ r.total >= 1 => r.count >= 1
        /\ res.count <= res.total
        /\ res.total >= 1 => res.count >= 1

\* a session of 1020 samples has been read out: the 8-bit total is 252, the
\* threshold 31, the 20 samples below the base are trimmed and the 8-bit
\* count of the 1000 others is 232
C38_Witness ==
    /\ \A n \in 0..3 : buckets.count[n] = 250
    /\ buckets.count[7] = 20
    /\ buckets.upper = 4
    /\ buckets.lower = 7
    /\ res.total = 252
    /\ res.count = 232

\* the histogram after buckets_reset has been read out: start 0, end 8,
\* count and total 0
C38_WitnessEmpty ==
    /\ buckets_empty(buckets)
    /\ buckets_start(buckets, 0) = 0
    /\ buckets_end(buckets, 0) = BUCKET_COUNT
    /\ res = [NoRes EXCEPT !.span = 7]

(***************************************************************************)
(* Sessions of a few samples with a read-out after any of them.            *)
(***************************************************************************)
MaxSmallAdds == 7

\* a sample, its neighbours one bin above and below and a sample eight
\* bins above, which forces a deflate
SmallSamples == {U32(128, 0), U32(128, 2), U32(127, 65534), U32(128, 16)}

AddCallSmall == AddCallFrom(SmallSamples, MaxSmallAdds)

NextBucketsSmall ==
    \/ buckets_reset
    \/ AddCallSmall
    \/ AddLoop
    \/ BucketsFilter

SpecBucketsSmall == Init /\ [][NextBucketsSmall]_vars

\* C39: small-sample filter.  With fewer than 8 samples added since the
\* last reset the threshold is 0 and buckets_filter trims nothing: count and
\* total are the number of samples added and sum is the sum of the samples
\* modulo 2^32.
C39_SmallSample ==
    /\ []((add.pc = "idle" /\ hist.adds < BUCKET_COUNT) =>
             LET r == buckets_filter(buckets)
             IN  /\ FilterTotal(buckets, BUCKET_COUNT) \div BUCKET_COUNT = 0
                 /\ r.count = hist.adds
                 /\ r.total = hist.adds
                 /\ r.sum = hist.sum)
    /\ [][(res' # res /\ hist.adds < BUCKET_COUNT) =>
             /\ res'.count = hist.adds
             /\ res'.total = hist.adds
             /\ res'.sum = hist.sum]_vars

\* seven samples on both sides of the base, after a deflate, read out in
\* full
C39_Witness ==
    /\ hist.adds = 7
    /\ buckets.shift > MinShift
    /\ buckets.lower < BUCKET_COUNT
    /\ buckets.upper > 1
    /\ res.count = 7
    /\ res.total = 7
    /\ res.sum = hist.sum

====
